---- MODULE Spec2Model ----
(***************************************************************************)
(* Tiny Weather: the weather acquisition service (services/weatherApi.js)  *)
(* and the useWeather hook that drives it, as a state machine.             *)
(*                                                                         *)
(* Time is the millisecond clock `now` (Date.now()).  A Date is its time   *)
(* value; InvalidDate stands for a Date whose time value is NaN.           *)
(* localStorage is reliable: setItem stores what it is given.              *)
(***************************************************************************)
EXTENDS Integers, Sequences, FiniteSets, TLC

\* ------------------------------------------------------------------ bounds
\* idle clock advances the environment may make
MaxTicks == 1
\* fetchAllWeather / fetchWithRetry invocations over one run
MaxCalls == 1
\* endpoints whose requests may fail within one fetchAllWeather invocation
MaxFlaky == 1

\* ------------------------------------------------------- program constants
CACHE_DURATION_MS == 1800000
RETRY_ATTEMPTS == 3
RETRY_DELAY_MS == 1000
HOURLY_HOURS == 12
DAILY_DAYS == 7

\* ----------------------------------------------------------------- JS values
InvalidDate == -1

\* a JSON value found where a date is expected
JNull == [j |-> "null", t |-> 0]
JMissing == [j |-> "missing", t |-> 0]
JIso(t) == [j |-> "iso", t |-> t]

\* Date.prototype.toJSON under JSON.stringify: an ISO string, or null for an
\* Invalid Date
DateToJSON(d) == IF d = InvalidDate THEN JNull ELSE JIso(d)

\* new Date(v) for a parsed JSON value v: an ISO string parses to its time,
\* null converts to 0 (the epoch), undefined gives an Invalid Date
NewDate(v) ==
  CASE v.j = "iso" -> v.t
    [] v.j = "null" -> 0
    [] OTHER -> InvalidDate

\* a JSON string that is no date ("soon")
JBad == [j |-> "bad", t |-> 0]

\* v || Date.now(): null, undefined and "" are falsy
Falsy(v) == v.j \in {"null", "missing"}

\* expiresAt > new Date(): any comparison with an Invalid Date is false
DateAfter(d, clock) == d # InvalidDate /\ d > clock

\* a JS value found where a number is expected; n is the number (integers
\* only) or the length of the string; sub is what the optional chain the
\* transformers follow into an object reaches (x?.degrees, x?.percent,
\* x?.index, x?.speed?.value, x?.max?.degrees, x?.max?.index), sub2 what
\* the second chain into a day's temperature reaches (x?.min?.degrees);
\* an empty sub is a chain that reaches nothing
Leaf(tag, n) == [tag |-> tag, n |-> n]

Val(tag, n, sub, sub2) == [tag |-> tag, n |-> n, sub |-> sub, sub2 |-> sub2]

Undefined == Val("undefined", 0, <<>>, <<>>)

Null == Val("null", 0, <<>>, <<>>)

Num(n) == Val("number", n, <<>>, <<>>)

Obj(sub, sub2) == Val("object", 0, sub, sub2)

\* the value at the end of an optional chain
Reached(leaves) ==
  IF leaves = <<>> THEN Undefined
  ELSE Val(leaves[1].tag, leaves[1].n, <<>>, <<>>)

\* x?.a and x?.a?.b: undefined unless x is an object holding the chain
Chain(x) == IF x.tag = "object" THEN Reached(x.sub) ELSE Undefined

Chain2(x) == IF x.tag = "object" THEN Reached(x.sub2) ELSE Undefined

\* ToBoolean: undefined, null, NaN, 0 and "" are falsy
Truthy(x) ==
  \/ x.tag = "object"
  \/ x.tag = "number" /\ x.n # 0
  \/ x.tag = "string" /\ x.n > 0

\* a || b
Or(a, b) == IF Truthy(a) THEN a ELSE b

\* JSON.stringify then JSON.parse of a value: NaN becomes null
JsonValue(x) == IF x.tag = "NaN" THEN Null ELSE x

Endpoints == {"current", "hourly", "daily"}

\* one transformed sub-result: src identifies the request that produced it,
\* dates are its Date fields (current.observationTime, hourly[i].time,
\* daily[i].date), taken in order, nums the numeric fields that go with them
NoPart == [src |-> 0, dates |-> <<>>, nums |-> <<>>]

\* null, where a WeatherData is expected
NullData ==
  [kind |-> "null", current |-> NoPart, hourly |-> NoPart, daily |-> NoPart,
   fetchedAt |-> InvalidDate, expiresAt |-> InvalidDate]

\* an exception, where a WeatherData is expected
Thrown == [NullData EXCEPT !.kind = "throw"]

\* ------------------------------------------------------------ cache storage
\* the localStorage slot STORAGE_KEYS.WEATHER_CACHE: absent, an unparseable
\* string, or a JSON object holding the fields named in `has`
NoEntry ==
  [kind |-> "none", has |-> {}, current |-> NoPart, hourly |-> NoPart,
   daily |-> NoPart, fetchedAt |-> JMissing, expiresAt |-> JMissing]

Garbage == [NoEntry EXCEPT !.kind = "garbage"]

StringifyPart(p) ==
  [src |-> p.src,
   dates |-> [i \in 1..Len(p.dates) |-> DateToJSON(p.dates[i])],
   nums |-> [i \in 1..Len(p.nums) |->
              [f \in DOMAIN p.nums[i] |-> JsonValue(p.nums[i][f])]]]

\* ...data.current / ...h / ...d with the Date field made a Date again
RehydratePart(p) ==
  [src |-> p.src,
   dates |-> [i \in 1..Len(p.dates) |-> NewDate(p.dates[i])],
   nums |-> p.nums]

\* JSON.stringify(data)
Stringify(data) ==
  [kind |-> "json", has |-> Endpoints,
   current |-> StringifyPart(data.current),
   hourly |-> StringifyPart(data.hourly),
   daily |-> StringifyPart(data.daily),
   fetchedAt |-> DateToJSON(data.fetchedAt),
   expiresAt |-> DateToJSON(data.expiresAt)]

\* the rehydration of getCachedWeather (lines 33-49)
Rehydrate(s) ==
  [kind |-> "data",
   current |-> RehydratePart(s.current),
   hourly |-> RehydratePart(s.hourly),
   daily |-> RehydratePart(s.daily),
   fetchedAt |-> NewDate(s.fetchedAt),
   expiresAt |-> NewDate(s.expiresAt)]

\* a variant that still accepts the entry at the millisecond of its expiry, for comparison
StillValidLax(s, clock) ==
  NewDate(s.expiresAt) # InvalidDate /\ NewDate(s.expiresAt) >= clock

\* getCachedWeather line 31: expiresAt > new Date()
StillValid(s, clock) == DateAfter(NewDate(s.expiresAt), clock)

\* the try block of getCachedWeather (lines 25-54): JSON.parse throws on an
\* unparseable string, and the rehydration throws a TypeError when current,
\* hourly or daily is missing
TryRead(s, clock) ==
  CASE s.kind = "none" -> NullData
    [] s.kind = "garbage" -> Thrown
    [] OTHER ->
         IF StillValid(s, clock)
         THEN IF s.has = Endpoints THEN Rehydrate(s) ELSE Thrown
         ELSE NullData

\* a variant without the catch block, for comparison
CacheResultNoCatch(s, clock) == TryRead(s, clock)

\* getCachedWeather, the value it returns: the catch block (lines 55-58)
\* turns every exception into null
CacheResult(s, clock) ==
  IF TryRead(s, clock).kind = "throw" THEN NullData ELSE TryRead(s, clock)

\* getCachedWeather, the slot it leaves behind: removeItem (line 53) is
\* reached only when the entry parsed and its validity test failed
CacheAfterRead(s, clock) ==
  IF s.kind = "json" /\ ~StillValid(s, clock) THEN NoEntry ELSE s

\* setCachedWeather: localStorage.setItem(cacheKey, JSON.stringify(data))
SetCachedWeather(data) == Stringify(data)

\* ------------------------------------------------------------------- state
Callers == {"A", "B"}

VARIABLES
  now,       \* Date.now()
  nticks,    \* idle clock advances made so far
  storage,   \* the localStorage slot of the weather cache
  calls,     \* per caller: its invocation of the service
  subs,      \* per caller and endpoint: its fetchWithRetry loop
  hook,      \* the useWeather state: data, isLoading, error, lastUpdated
  ncalls,    \* invocations started so far
  lastGood,  \* the payload most recently handed to setCachedWeather
  analysis,  \* the last call of an analyzer: its name, argument and result
  children,  \* the useChildren state: the roster
  locs       \* the (lat, lng) of every invocation so far, by invocation id

vars ==
  <<now, nticks, storage, calls, subs, hook, ncalls, lastGood, analysis,
    children, locs>>

\* no analyzer has been called
NoAnalysis == [op |-> "none"]

\* two places, as (lat, lng) pairs
Home == <<40, -74>>

Away == <<51, 0>>

\* an Error: the attempt that raised it and what raised it
NoError == [attempt |-> 0, kind |-> "none"]

ErrorKinds == {"network", "http"}

\* fetchWithRetry before it is called: the loop index i, the delay of the
\* sleep in progress, lastError, and the transformed result; firstError,
\* nreq (requests issued), delays (every delay slept) and got (the body of
\* the 2xx response) record its history
IdleSub ==
  [st |-> "idle", i |-> 0, sleepMs |-> 0, lastError |-> NoError,
   firstError |-> NoError, thrown |-> NoError, nreq |-> 0, delays |-> <<>>,
   got |-> <<>>, out |-> NoPart]

\* fetchAllWeather before it is called; seen and left are the cache slot as
\* the call found it and as its lookup left it, order tells which call
\* resolved first
IdleCall ==
  [st |-> "idle", id |-> 0, hook |-> FALSE, useCache |-> FALSE,
   forceRefresh |-> FALSE, hit |-> FALSE, result |-> NullData,
   error |-> NoError, startedAt |-> 0, seen |-> NoEntry, left |-> NoEntry,
   wrote |-> FALSE, order |-> 0]

\* useState(null), useState(true), useState(null), useState(null)
InitHook ==
  [data |-> NullData, isLoading |-> TRUE, error |-> NoError,
   lastUpdated |-> InvalidDate]

\* ------------------------------------------------------------ transformers
\* new Date(current.observationTime || current.dateTime || Date.now())
ObservationTime(v, clock) == IF Falsy(v) THEN clock ELSE NewDate(v)

\* transformCurrentConditions, its Date field
TransformCurrentDates(body, clock) ==
  [i \in 1..Len(body) |-> ObservationTime(body[i].time, clock)]

\* transformHourlyForecast / transformDailyForecast, their Date fields:
\* new Date(hour.interval?.startTime || hour.dateTime || hour.time)
TransformListDates(body) == [i \in 1..Len(body) |-> NewDate(body[i].time)]

TransformDates(k, body, clock) ==
  IF k = "current" THEN TransformCurrentDates(body, clock)
  ELSE TransformListDates(body)

celsiusToFahrenheit(celsius) ==
  IF celsius.tag # "number" THEN Num(70)
  ELSE Num((18 * celsius.n + 5) \div 10 + 32)

mpsToMph(mps) ==
  IF mps.tag # "number" THEN Num(0)
  ELSE Num((2237 * mps.n + 500) \div 1000)

\* transformCurrentConditions, its numeric fields
transformCurrentConditions(current) ==
  [temperature |-> celsiusToFahrenheit(Or(Chain(current.temperature), current.temperature)),
   feelsLike |-> celsiusToFahrenheit(
     Or(Or(Chain(current.apparentTemperature), current.feelsLike),
        Chain(current.temperature))),
   humidity |-> Or(Or(Chain(current.humidity), current.humidity), Num(50)),
   windSpeed |-> mpsToMph(Or(Or(Chain(current.wind), current.windSpeed), Num(0))),
   uvIndex |-> Or(Or(Chain(current.uvIndex), current.uvIndex), Num(0)),
   precipitationProbability |->
     Or(Or(Chain(current.precipitationProbability),
           current.precipitationProbability), Num(0))]

\* transformHourlyForecast, the numeric fields of one hour
transformHourlyForecast(hour) ==
  [temperature |-> celsiusToFahrenheit(Or(Chain(hour.temperature), hour.temperature)),
   feelsLike |-> celsiusToFahrenheit(
     Or(Or(Chain(hour.apparentTemperature), hour.feelsLike),
        Chain(hour.temperature))),
   humidity |-> Or(Or(Chain(hour.humidity), hour.humidity), Num(50)),
   precipitationProbability |->
     Or(Or(Chain(hour.precipitationProbability),
           hour.precipitationProbability), Num(0)),
   uvIndex |-> Or(Or(Chain(hour.uvIndex), hour.uvIndex), Num(0)),
   windSpeed |-> mpsToMph(Or(Or(Chain(hour.wind), hour.windSpeed), Num(0)))]

\* transformDailyForecast, the numeric fields of one day
transformDailyForecast(day) ==
  [tempHigh |-> celsiusToFahrenheit(
     Or(Or(Chain(day.temperature), day.maxTemperature), day.tempHigh)),
   tempLow |-> celsiusToFahrenheit(
     Or(Or(Chain2(day.temperature), day.minTemperature), day.tempLow)),
   precipitationProbability |->
     Or(Or(Chain(day.precipitationProbability),
           day.precipitationProbability), Num(0)),
   uvIndexMax |-> Or(Or(Chain(day.uvIndex), day.uvIndexMax), Num(0))]

TransformNumbers(k, body) ==
  [i \in 1..Len(body) |->
     CASE k = "current" -> transformCurrentConditions(body[i])
       [] k = "hourly" -> transformHourlyForecast(body[i])
       [] OTHER -> transformDailyForecast(body[i])]

\* hourlyData.slice(0, hours) / dailyData.slice(0, days): the items a list
\* transformer keeps; the list is taken as the provider ordered it
Sliced(k, body) ==
  CASE k = "hourly" /\ Len(body) > HOURLY_HOURS -> SubSeq(body, 1, HOURLY_HOURS)
    [] k = "daily" /\ Len(body) > DAILY_DAYS -> SubSeq(body, 1, DAILY_DAYS)
    [] OTHER -> body

\* the whole of a transformer: the sub-result made of a 2xx body
Transform(k, body, clock, src) ==
  [src |-> src,
   dates |-> TransformDates(k, Sliced(k, body), clock),
   nums |-> TransformNumbers(k, Sliced(k, body))]

\* ---------------------------------------------------------- fetchWithRetry
\* a variant with a constant delay, for comparison
RetryDelayFlat(i) == RETRY_DELAY_MS

\* line 117: the delay slept after the failure of attempt i (0-based)
RetryDelay(i) == RETRY_DELAY_MS * (i + 1)

\* line 116: is another attempt made after attempt i failed?
RetriesAgain(i, retries) == i < retries - 1

\* a variant that keeps the error of the first attempt, for comparison
RaisedFirstError(sub) == sub.firstError

\* line 122: the error thrown once the loop is exhausted
RaisedError(sub) == sub.lastError

\* --------------------------------------------------------- fetchAllWeather
\* line 318: is the cache looked up?
Lookup(useCache, forceRefresh) == useCache /\ ~forceRefresh

\* line 343: is the result cached?
Writes(useCache) == useCache

\* a variant that adds no lifetime, for comparison
ExpiresAtNoDuration(fetchedAt) == fetchedAt

\* line 339
ExpiresAt(fetchedAt) == fetchedAt + CACHE_DURATION_MS

\* lines 333-340
BuildWeatherData(parts, clock) ==
  [kind |-> "data", current |-> parts["current"], hourly |-> parts["hourly"],
   daily |-> parts["daily"], fetchedAt |-> clock,
   expiresAt |-> ExpiresAt(clock)]

\* a variant that waits for all three and ignores rejections, for comparison
JoinAllSettled(mine) ==
  IF \A k \in Endpoints : mine[k].st \in {"ok", "err"} THEN "resolve"
  ELSE "wait"

\* Promise.all over the three sub-fetches (line 327): rejected as soon as
\* one of them is, fulfilled once all three are
JoinAll(mine) ==
  CASE \E k \in Endpoints : mine[k].st = "err" -> "reject"
    [] \A k \in Endpoints : mine[k].st = "ok" -> "resolve"
    [] OTHER -> "wait"

\* a variant that reads the first caller's sub-fetches, for comparison
PartsOfFirstCaller(c, mine) == [k \in Endpoints |-> subs["A"][k].out]

\* the results the continuation of line 327 destructures: the caller's own
PartsOf(c, mine) == [k \in Endpoints |-> mine[k].out]

\* ---------------------------------------------------------------- useWeather
\* fetchWeather once fetchAllWeather resolved (lines 179-180, 192)
HookResolved(h, data) ==
  [h EXCEPT !.data = data, !.lastUpdated = data.fetchedAt,
            !.isLoading = FALSE]

\* fetchWeather once fetchAllWeather rejected (lines 181-193); cached is
\* what getCachedWeather() returned
HookRejected(h, err, cached) ==
  IF cached.kind = "data"
  THEN [h EXCEPT !.error = err, !.data = cached,
                 !.lastUpdated = cached.fetchedAt, !.isLoading = FALSE]
  ELSE [h EXCEPT !.error = err, !.isLoading = FALSE]

\* ----------------------------------------------------------------- actions
Quiet(c) == \A k \in Endpoints : subs[c][k].st \in {"idle", "ok", "err"}

\* time passes
Tick(d) ==
  /\ now' = now + d
  /\ nticks' = nticks + 1
  /\ UNCHANGED <<storage, calls, subs, hook, ncalls, lastGood>>
  /\ UNCHANGED <<analysis, children, locs>>

\* a caller invokes fetchAllWeather(lat, lng, {useCache, forceRefresh}) with
\* (lat, lng) = loc, which its three requests carry in their query; hk
\* tells a run of useWeather.fetchWeather (lines 169-177) from a direct call.
\* The lookup, and on a miss the three requests, happen before the first
\* suspension; a promise settled without suspension is consumed by the hook
\* before any other event is handled
CallFetchAll(c, hk, uc, fr, loc) ==
  /\ calls[c].st \in {"idle", "resolved", "rejected"}
  /\ Quiet(c)
  /\ hk => uc
  /\ LET look == Lookup(uc, fr)
         cached == IF look THEN CacheResult(storage, now) ELSE NullData
         after == IF look THEN CacheAfterRead(storage, now) ELSE storage
         h1 == IF hk THEN [hook EXCEPT !.isLoading = TRUE, !.error = NoError]
               ELSE hook
         base == [IdleCall EXCEPT !.id = ncalls + 1, !.hook = hk,
                                  !.useCache = uc, !.forceRefresh = fr,
                                  !.startedAt = now, !.seen = storage,
                                  !.left = after]
         err == [attempt |-> 0, kind |-> "cache"]
     IN CASE cached.kind = "data" ->
               /\ calls' = [calls EXCEPT ![c] =
                     [base EXCEPT !.st = "resolved", !.hit = TRUE,
                                  !.result = cached]]
               /\ subs' = [subs EXCEPT ![c] = [k \in Endpoints |-> IdleSub]]
               /\ hook' = IF hk THEN HookResolved(h1, cached) ELSE h1
               /\ storage' = after
          [] cached.kind = "throw" ->
               /\ calls' = [calls EXCEPT ![c] =
                     [base EXCEPT !.st = "rejected", !.error = err]]
               /\ subs' = [subs EXCEPT ![c] = [k \in Endpoints |-> IdleSub]]
               /\ hook' = IF hk
                          THEN HookRejected(h1, err, CacheResult(after, now))
                          ELSE h1
               /\ storage' = IF hk THEN CacheAfterRead(after, now) ELSE after
          [] OTHER ->
               /\ calls' = [calls EXCEPT ![c] = [base EXCEPT !.st = "pending"]]
               /\ subs' = [subs EXCEPT ![c] =
                     [k \in Endpoints |->
                        [IdleSub EXCEPT !.st = "req", !.nreq = 1]]]
               /\ hook' = h1
               /\ storage' = after
  /\ ncalls' = ncalls + 1
  /\ locs' = Append(locs, loc)
  /\ UNCHANGED <<now, nticks, lastGood>>
  /\ UNCHANGED <<analysis, children>>

\* a caller invokes one of fetchCurrentConditions, fetchHourlyForecast,
\* fetchDailyForecast on its own (lines 245-305)
CallFetchOne(c, k, loc) ==
  /\ calls[c].st \in {"idle", "single"}
  /\ Quiet(c)
  /\ calls' = [calls EXCEPT ![c] =
        [IdleCall EXCEPT !.st = "single", !.id = ncalls + 1,
                         !.startedAt = now]]
  /\ subs' = [subs EXCEPT ![c] =
        [j \in Endpoints |->
           IF j = k THEN [IdleSub EXCEPT !.st = "req", !.nreq = 1]
           ELSE IdleSub]]
  /\ ncalls' = ncalls + 1
  /\ locs' = Append(locs, loc)
  /\ UNCHANGED <<now, nticks, storage, hook, lastGood>>
  /\ UNCHANGED <<analysis, children>>

\* the continuation of line 327 for caller c, run when one of its sub-fetches
\* settles and leaves them as `mine`; err is what that sub-fetch threw, if it
\* threw.  On fulfilment lines 333-347 build, cache and return the payload;
\* a hook run then takes lines 179-180 or its catch branch (lines 181-190)
SettleCall(c, mine, err) ==
  IF calls[c].st # "pending"
  THEN UNCHANGED <<calls, storage, lastGood, hook>>
  ELSE CASE JoinAll(mine) = "resolve" ->
              LET data == BuildWeatherData(PartsOf(c, mine), now)
                  w == Writes(calls[c].useCache)
                  before == {d \in Callers \ {c} :
                               calls[d].st = "resolved" /\ calls[d].wrote}
              IN /\ calls' = [calls EXCEPT ![c].st = "resolved",
                                           ![c].result = data,
                                           ![c].wrote = w,
                                           ![c].order = Cardinality(before) + 1]
                 /\ storage' = IF w THEN SetCachedWeather(data) ELSE storage
                 /\ lastGood' = IF w THEN data ELSE lastGood
                 /\ hook' = IF calls[c].hook THEN HookResolved(hook, data)
                            ELSE hook
         [] JoinAll(mine) = "reject" ->
              /\ calls' = [calls EXCEPT ![c].st = "rejected", ![c].error = err]
              /\ IF calls[c].hook
                 THEN /\ hook' = HookRejected(hook, err,
                                              CacheResult(storage, now))
                      /\ storage' = CacheAfterRead(storage, now)
                 ELSE UNCHANGED <<hook, storage>>
              /\ UNCHANGED lastGood
         [] OTHER -> UNCHANGED <<calls, storage, lastGood, hook>>

\* the request of endpoint k gets a 2xx response whose body parses: the loop
\* returns (line 111) and the transformer runs
RespondOk(c, k, body) ==
  /\ subs[c][k].st = "req"
  /\ LET part == Transform(k, body, now, calls[c].id)
         mine == [subs[c] EXCEPT ![k].st = "ok", ![k].got = body,
                                 ![k].out = part]
     IN /\ subs' = [subs EXCEPT ![c] = mine]
        /\ SettleCall(c, mine, NoError)
  /\ UNCHANGED <<now, nticks, ncalls>>
  /\ UNCHANGED <<analysis, children, locs>>

\* the request of endpoint k fails (fetch throws, or the response is not ok):
\* the catch block (lines 112-119), then either the sleep or, after the last
\* attempt, the throw of line 122
RespondFail(c, k, kind) ==
  /\ subs[c][k].st = "req"
  /\ LET sub == subs[c][k]
         e == [attempt |-> sub.i + 1, kind |-> kind]
         caught == [sub EXCEPT !.lastError = e,
                      !.firstError = IF sub.firstError = NoError THEN e
                                     ELSE sub.firstError]
         failed == [caught EXCEPT !.st = "err", !.thrown = RaisedError(caught)]
         asleep == [caught EXCEPT !.st = "sleep",
                      !.sleepMs = RetryDelay(sub.i),
                      !.delays = Append(sub.delays, RetryDelay(sub.i))]
     IN IF RetriesAgain(sub.i, RETRY_ATTEMPTS)
        THEN /\ subs' = [subs EXCEPT ![c][k] = asleep]
             /\ UNCHANGED <<calls, storage, lastGood, hook>>
        ELSE /\ subs' = [subs EXCEPT ![c][k] = failed]
             /\ SettleCall(c, [subs[c] EXCEPT ![k] = failed], failed.thrown)
  /\ UNCHANGED <<now, nticks, ncalls>>
  /\ UNCHANGED <<analysis, children, locs>>

\* the request gets a 2xx response that response.json() or the transformer
\* cannot use: the rejection escapes the try block, nothing is retried
RespondUnusable(c, k) ==
  /\ subs[c][k].st = "req"
  /\ LET e == [attempt |-> subs[c][k].i + 1, kind |-> "parse"]
         failed == [subs[c][k] EXCEPT !.st = "err", !.thrown = e]
     IN /\ subs' = [subs EXCEPT ![c][k] = failed]
        /\ SettleCall(c, [subs[c] EXCEPT ![k] = failed], e)
  /\ UNCHANGED <<now, nticks, ncalls>>
  /\ UNCHANGED <<analysis, children, locs>>

\* the timer of sleep(ms) fires (lines 89-91), i++ runs, and the loop either
\* issues the next request or, its condition of line 102 failing, throws
\* (line 122).  The clock is advanced by Tick alone: the model lets a timer
\* fire after any lapse of time
TimerFire(c, k) ==
  /\ subs[c][k].st = "sleep"
  /\ LET sub == subs[c][k]
         again == [sub EXCEPT !.st = "req", !.i = @ + 1, !.nreq = @ + 1,
                              !.sleepMs = 0]
         failed == [sub EXCEPT !.st = "err", !.i = @ + 1, !.sleepMs = 0,
                               !.thrown = RaisedError(sub)]
     IN IF sub.i + 1 < RETRY_ATTEMPTS
        THEN /\ subs' = [subs EXCEPT ![c][k] = again]
             /\ UNCHANGED <<calls, storage, lastGood, hook>>
        ELSE /\ subs' = [subs EXCEPT ![c][k] = failed]
             /\ SettleCall(c, [subs[c] EXCEPT ![k] = failed], failed.thrown)
  /\ UNCHANGED <<now, nticks, ncalls>>
  /\ UNCHANGED <<analysis, children, locs>>

\* ------------------------------------------ fetchAllWeather, one at a time
\* what the provider sends of one observation, hour or day: time is the
\* value the transformer finds under observationTime / interval.startTime /
\* dateTime / time / date, the other fields are those read for numbers
GoodItem ==
  [time |-> JIso(0),
   temperature |-> Obj(<<Leaf("number", 20)>>, <<Leaf("number", 10)>>),
   apparentTemperature |-> Obj(<<Leaf("number", 19)>>, <<>>),
   feelsLike |-> Undefined,
   humidity |-> Num(40),
   wind |-> Obj(<<Leaf("number", 3)>>, <<>>),
   windSpeed |-> Undefined,
   uvIndex |-> Num(5),
   uvIndexMax |-> Undefined,
   precipitationProbability |-> Obj(<<Leaf("number", 10)>>, <<>>),
   maxTemperature |-> Undefined,
   minTemperature |-> Undefined,
   tempHigh |-> Undefined,
   tempLow |-> Undefined]

\* a 2xx body whose one item is well formed
Bodies == {<<GoodItem>>}

\* the payload a previous session left in localStorage, fetched at time 0
PriorData ==
  [kind |-> "data",
   current |-> Transform("current", <<GoodItem>>, 0, 0),
   hourly |-> Transform("hourly", <<GoodItem>>, 0, 0),
   daily |-> Transform("daily", <<GoodItem>>, 0, 0),
   fetchedAt |-> 0, expiresAt |-> 0 + CACHE_DURATION_MS]

\* everything but the cache slot and the record of what was cached last
InitRest ==
  /\ now = 0
  /\ nticks = 0
  /\ calls = [c \in Callers |-> IdleCall]
  /\ subs = [c \in Callers |-> [k \in Endpoints |-> IdleSub]]
  /\ hook = InitHook
  /\ ncalls = 0
  /\ analysis = NoAnalysis
  /\ children = <<>>
  /\ locs = <<>>

Init ==
  /\ InitRest
  /\ storage \in {NoEntry, Stringify(PriorData)}
  /\ lastGood = IF storage = NoEntry THEN NullData ELSE PriorData

\* no invocation is in flight, and no request or timer of an earlier one
AllQuiet == \A c \in Callers : calls[c].st # "pending" /\ Quiet(c)

\* how long the application sits idle: to the last millisecond before the
\* expiry of a payload cached when the idling began, and to its expiry
IdleTimes == {CACHE_DURATION_MS - 1, CACHE_DURATION_MS}

SeqTick ==
  /\ nticks < MaxTicks
  /\ ncalls < MaxCalls      \* idling matters to the call that follows it
  /\ AllQuiet
  /\ \E d \in IdleTimes : Tick(d)

SeqCall ==
  /\ ncalls < MaxCalls
  /\ AllQuiet
  /\ \E hk \in BOOLEAN, uc \in BOOLEAN, fr \in BOOLEAN :
       CallFetchAll("A", hk, uc, fr, Home)

\* the endpoints of caller c that have seen a request fail
Flaky(c) ==
  {k \in Endpoints : subs[c][k].firstError # NoError \/ subs[c][k].st = "err"}

MayFail(c, k) == Cardinality(Flaky(c) \cup {k}) <= MaxFlaky

SeqOk == \E k \in Endpoints, body \in Bodies : RespondOk("A", k, body)

SeqFail == \E k \in Endpoints : MayFail("A", k) /\ RespondFail("A", k, "http")

SeqUnusable == \E k \in Endpoints : MayFail("A", k) /\ RespondUnusable("A", k)

SeqTimer == \E k \in Endpoints : TimerFire("A", k)

Next == SeqTick \/ SeqCall \/ SeqOk \/ SeqFail \/ SeqUnusable \/ SeqTimer

Spec == Init /\ [][Next]_vars

\* -------------------------------------------------- properties under Spec
\* a stored entry that is a complete WeatherData, and its expiry
WellFormed(s) == s.kind = "json" /\ s.has = Endpoints /\ s.expiresAt.j = "iso"

Started(c) == calls[c].st \in {"pending", "resolved", "rejected"}

AllRequested(c) == \A k \in Endpoints : subs[c][k].nreq >= 1

NoneRequested(c) == \A k \in Endpoints : subs[c][k].nreq = 0

\* C1: a call with useCache and without forceRefresh that finds a stored
\* WeatherData with now < expiresAt returns it and issues no request; one
\* that finds it with now >= expiresAt removes it and issues the three
\* requests, as does one that finds nothing; a call with forceRefresh leaves
\* the slot as it is and issues the three requests
C1_CacheBeforeNetwork ==
  \A c \in Callers :
    Started(c) =>
      LET call == calls[c]
          looks == call.useCache /\ ~call.forceRefresh
      IN /\ (looks /\ WellFormed(call.seen)
               /\ call.startedAt < call.seen.expiresAt.t)
            => /\ call.hit
               /\ call.st = "resolved"
               /\ call.result.kind = "data"
               /\ Stringify(call.result) = call.seen
               /\ call.left = call.seen
               /\ NoneRequested(c)
         /\ (looks /\ WellFormed(call.seen)
               /\ call.startedAt >= call.seen.expiresAt.t)
            => /\ ~call.hit
               /\ call.left = NoEntry
               /\ AllRequested(c)
         /\ (looks /\ call.seen = NoEntry)
            => ~call.hit /\ AllRequested(c)
         /\ call.forceRefresh
            => ~call.hit /\ call.left = call.seen /\ AllRequested(c)

\* C1 witness: a call found a stored WeatherData at the very millisecond of
\* its expiry, removed it and went to the network
C1_Witness ==
  \E c \in Callers :
    /\ calls[c].st = "pending"
    /\ calls[c].useCache /\ ~calls[c].forceRefresh
    /\ WellFormed(calls[c].seen)
    /\ calls[c].startedAt = calls[c].seen.expiresAt.t
    /\ calls[c].left = NoEntry
    /\ AllRequested(c)

\* C4: once a sub-fetch of a fetchAllWeather call has failed, the call is
\* rejected, has written nothing, and no part of the cached payload comes
\* from that call
C4_NoPartialCache ==
  \A c \in Callers :
    (Started(c) /\ \E k \in Endpoints : subs[c][k].st = "err")
    => /\ calls[c].st = "rejected"
       /\ ~calls[c].wrote
       /\ storage.kind = "json"
          => /\ storage.current.src # calls[c].id
             /\ storage.hourly.src # calls[c].id
             /\ storage.daily.src # calls[c].id

\* C4 witness: one sub-fetch failed after its three attempts and the other
\* two succeeded after it, for a call that would have cached its result
C4_Witness ==
  \E c \in Callers, k \in Endpoints :
    /\ calls[c].st = "rejected" /\ calls[c].useCache
    /\ subs[c][k].st = "err" /\ subs[c][k].nreq = RETRY_ATTEMPTS
    /\ \A j \in Endpoints \ {k} : subs[c][j].st = "ok"

Exhausted(c) ==
  /\ calls[c].st = "rejected"
  /\ calls[c].error.attempt = RETRY_ATTEMPTS
  /\ calls[c].error.kind \in ErrorKinds

\* C9: when a run of useWeather.fetchWeather has failed after exhausting
\* retries, the hook holds the error and, if a payload was ever cached, shows
\* the payload cached last
C9_FallbackToLastGood ==
  \A c \in Callers :
    (calls[c].hook /\ Exhausted(c))
    => /\ hook.error = calls[c].error
       /\ lastGood.kind = "data" => hook.data = lastGood

\* -------------------------------------------------- corrupt cache slot
\* stored strings that are not a WeatherData: not JSON at all, or JSON
\* without some of current / hourly / daily (with an expiry still ahead or
\* with none)
CorruptEntries ==
  {Garbage}
  \cup {[Stringify(PriorData) EXCEPT !.has = h] :
          h \in {{}, {"hourly", "daily"}, {"current", "daily"}}}
  \cup {[Stringify(PriorData) EXCEPT !.has = {}, !.expiresAt = JMissing]}

Corrupt(s) == s.kind = "garbage" \/ (s.kind = "json" /\ s.has # Endpoints)

InitCorrupt ==
  /\ InitRest
  /\ storage \in CorruptEntries
  /\ lastGood = NullData

\* fetchAllWeather with the cache on, from the hook or not
CorruptCall ==
  /\ ncalls < MaxCalls
  /\ AllQuiet
  /\ \E hk, fr \in BOOLEAN : CallFetchAll("A", hk, TRUE, fr, Home)

NextCorrupt == SeqTick \/ CorruptCall \/ SeqOk \/ SeqUnusable

SpecCorrupt == InitCorrupt /\ [][NextCorrupt]_vars

\* C8: a fetchAllWeather call that looks into a corrupt slot gets a miss,
\* not an exception, and issues the three requests as it does on an empty
\* slot; nothing is returned from the slot
C8_CorruptIsMiss ==
  \A c \in Callers :
    /\ calls[c].error.kind # "cache"
    /\ (Started(c) /\ Corrupt(calls[c].seen))
       => /\ ~calls[c].hit
          /\ AllRequested(c)
          /\ calls[c].st = "resolved" => calls[c].result.fetchedAt >= calls[c].startedAt
    /\ CacheResult(storage, now).kind \in {"null", "data"}
    /\ Corrupt(storage) => CacheResult(storage, now) = NullData

\* C8 witness: a call looked into a slot whose JSON lacks `current` while its
\* expiry was still ahead, and its three requests are out
C8_Witness ==
  \E c \in Callers :
    /\ calls[c].st = "pending"
    /\ calls[c].useCache /\ ~calls[c].forceRefresh
    /\ calls[c].seen.kind = "json"
    /\ "current" \notin calls[c].seen.has
    /\ calls[c].seen.expiresAt.j = "iso"
    /\ calls[c].startedAt < calls[c].seen.expiresAt.t
    /\ calls[c].left = calls[c].seen
    /\ AllRequested(c)

\* -------------------------------------------------- one sub-fetch at a time
\* fetchCurrentConditions / fetchHourlyForecast / fetchDailyForecast called
\* on their own, each attempt free to succeed, to fail either way or to
\* answer 2xx with an unusable body
InitRetry ==
  /\ InitRest
  /\ storage = NoEntry
  /\ lastGood = NullData

RetryCall ==
  /\ ncalls < MaxCalls
  /\ AllQuiet
  /\ \E k \in Endpoints : CallFetchOne("A", k, Home)

RetryOk == \E k \in Endpoints, body \in Bodies : RespondOk("A", k, body)

RetryFail == \E k \in Endpoints, e \in ErrorKinds : RespondFail("A", k, e)

RetryUnusable == \E k \in Endpoints : RespondUnusable("A", k)

RetryTimer == \E k \in Endpoints : TimerFire("A", k)

NextRetry ==
  SeqTick \/ RetryCall \/ RetryOk \/ RetryFail \/ RetryUnusable \/ RetryTimer

SpecRetry == InitRetry /\ [][NextRetry]_vars

\* every request issued is answered, every timer set fires
FairSpecRetry ==
  /\ SpecRetry
  /\ WF_vars(RetryOk \/ RetryFail \/ RetryUnusable)
  /\ WF_vars(RetryTimer)

\* number of attempts of a sub-fetch that failed and were caught
Failures(sub) == sub.lastError.attempt

RetryShape(sub) ==
  /\ sub.nreq <= RETRY_ATTEMPTS
  /\ sub.st = "req" => sub.nreq = Failures(sub) + 1
  /\ sub.st = "ok" => sub.nreq = Failures(sub) + 1
  /\ sub.st = "sleep"
     => /\ sub.nreq = Failures(sub)
        /\ sub.nreq < RETRY_ATTEMPTS
        /\ sub.sleepMs = RETRY_DELAY_MS * sub.nreq
        /\ Len(sub.delays) = sub.nreq
  /\ sub.st # "sleep" /\ sub.nreq >= 1 => Len(sub.delays) = sub.nreq - 1
  /\ sub.delays = SubSeq(<<1000, 2000>>, 1, Len(sub.delays))
  /\ (sub.st = "err" /\ sub.thrown.kind \in ErrorKinds)
     => sub.nreq = RETRY_ATTEMPTS /\ Failures(sub) = RETRY_ATTEMPTS

\* C2: a sub-fetch issues at most RETRY_ATTEMPTS requests, each one after the
\* first right after a failed one and the delay RETRY_DELAY_MS * k (1000,
\* 2000) that follows failure k; a success is the last request; the last
\* failure is followed by no delay; and a sub-fetch whose requests are all
\* answered settles
C2_RetrySchedule ==
  /\ [](\A c \in Callers, k \in Endpoints : RetryShape(subs[c][k]))
  /\ \A c \in Callers, k \in Endpoints :
       (subs[c][k].st \in {"req", "sleep"}) ~> (subs[c][k].st \in {"ok", "err"})

\* C2 witness: a sub-fetch succeeded at its third request, after delays of
\* 1000 and 2000 ms
C2_Witness ==
  \E c \in Callers, k \in Endpoints :
    /\ subs[c][k].st = "ok"
    /\ subs[c][k].nreq = RETRY_ATTEMPTS
    /\ subs[c][k].delays = <<RETRY_DELAY_MS, 2 * RETRY_DELAY_MS>>

AllFailed(sub) ==
  /\ sub.st = "err"
  /\ sub.nreq = RETRY_ATTEMPTS
  /\ sub.thrown.kind \in ErrorKinds

\* C3 as stated: when all attempts failed, the error raised is the error of
\* the first failed attempt
C3_FirstErrorRaised ==
  \A c \in Callers, k \in Endpoints :
    AllFailed(subs[c][k]) => subs[c][k].thrown = subs[c][k].firstError

\* C3 amended: when all attempts failed, the error raised is the error of
\* the last failed attempt, attempt number RETRY_ATTEMPTS
C3_LastErrorRaised ==
  \A c \in Callers, k \in Endpoints :
    AllFailed(subs[c][k])
    => /\ subs[c][k].thrown = subs[c][k].lastError
       /\ subs[c][k].thrown.attempt = RETRY_ATTEMPTS

\* C3 witness: three attempts failed, the first and the last in different
\* ways
C3_Witness ==
  \E c \in Callers, k \in Endpoints :
    /\ AllFailed(subs[c][k])
    /\ subs[c][k].firstError.kind = "http"
    /\ subs[c][k].thrown.kind = "network"

\* -------------------------------------------------- two callers at once
\* two callers of fetchAllWeather (useCache on), one call each, started in
\* any order, their six sub-fetches answered in any order
InitRace ==
  /\ InitRest
  /\ storage \in {NoEntry, Stringify(PriorData)}
  /\ lastGood = IF storage = NoEntry THEN NullData ELSE PriorData

\* the clock moves on while no call is under way and a caller has yet to call
RaceTick ==
  /\ nticks < MaxTicks
  /\ AllQuiet
  /\ \E c \in Callers : calls[c].st = "idle"
  /\ Tick(CACHE_DURATION_MS)

RaceCall ==
  \E c \in Callers, fr \in BOOLEAN :
    /\ calls[c].st = "idle"
    /\ CallFetchAll(c, FALSE, TRUE, fr, Home)

\* at most MaxFlaky of the six sub-fetches fail
RaceFlaky == {ck \in Callers \X Endpoints : ck[2] \in Flaky(ck[1])}

RaceMayFail(c, k) == Cardinality(RaceFlaky \cup {<<c, k>>}) <= MaxFlaky

RaceOk ==
  \E c \in Callers, k \in Endpoints, body \in Bodies : RespondOk(c, k, body)

RaceUnusable ==
  \E c \in Callers, k \in Endpoints :
    RaceMayFail(c, k) /\ RespondUnusable(c, k)

NextRace == RaceTick \/ RaceCall \/ RaceOk \/ RaceUnusable

SpecRace == InitRace /\ [][NextRace]_vars

\* the stored entry was nothing, or a payload already expired, when c looked
MissedAt(c) ==
  \/ calls[c].seen = NoEntry
  \/ WellFormed(calls[c].seen) /\ calls[c].startedAt >= calls[c].seen.expiresAt.t

Wrote(c) == calls[c].st = "resolved" /\ ~calls[c].hit /\ calls[c].wrote

\* C5: a caller that finds the slot empty or expired misses and issues its
\* own three requests whatever the other caller is doing; every payload in
\* the slot is built from the sub-results of one call only; and when both
\* callers have written, the slot holds the payload of the one that wrote
\* last
C5_LastWriterWins ==
  /\ \A c \in Callers :
       (Started(c) /\ MissedAt(c)) => ~calls[c].hit /\ AllRequested(c)
  /\ storage.kind = "json"
     => /\ storage.current.src = storage.hourly.src
        /\ storage.hourly.src = storage.daily.src
  /\ \A c \in Callers :
       (Wrote(c) /\ \A d \in Callers \ {c} : Wrote(d) /\ calls[d].order < calls[c].order)
       => /\ storage = Stringify(calls[c].result)
          /\ storage.current.src = calls[c].id

\* C5 witness: both callers missed, the caller that started first wrote last
\* and its payload is the one in the slot
C5_Witness ==
  \E c \in Callers :
    /\ Wrote(c) /\ calls[c].id = 1 /\ calls[c].order = 2
    /\ \A d \in Callers \ {c} : Wrote(d) /\ calls[d].id = 2 /\ calls[d].order = 1
    /\ storage = Stringify(calls[c].result)
    /\ storage.current.src = 1

\* -------------------------------------------------- the cache on its own
\* setCachedWeather(d) and getCachedWeather() called directly, d being any
\* payload fetchAllWeather builds from what the provider may send
\* the time field the provider sends with an observation, an hour or a day:
\* an ISO time, none, or a string that is no time
ProviderDates == {JIso(0), JMissing, JBad}

ProviderBodies == {<<[GoodItem EXCEPT !.time = v]>> : v \in ProviderDates}

PayloadOf(bodies, clock) ==
  BuildWeatherData(
    [k \in Endpoints |-> Transform(k, bodies[k], clock, 0)],
    clock)

InitCache ==
  /\ InitRest
  /\ storage = NoEntry
  /\ lastGood = NullData

\* setCachedWeather(d); lastGood remembers d
CacheSet(bodies) ==
  /\ ncalls < MaxCalls
  /\ storage' = SetCachedWeather(PayloadOf(bodies, now))
  /\ lastGood' = PayloadOf(bodies, now)
  /\ ncalls' = ncalls + 1
  /\ UNCHANGED <<now, nticks, calls, subs, hook>>
  /\ UNCHANGED <<analysis, children, locs>>

\* c calls getCachedWeather() and keeps what it found and what it got
CacheGet(c) ==
  /\ calls' = [calls EXCEPT ![c] =
       [IdleCall EXCEPT !.st = "read",
                        !.startedAt = now,
                        !.seen = storage,
                        !.result = CacheResult(storage, now),
                        !.left = CacheAfterRead(storage, now)]]
  /\ storage' = CacheAfterRead(storage, now)
  /\ UNCHANGED <<now, nticks, subs, hook, ncalls, lastGood>>
  /\ UNCHANGED <<analysis, children, locs>>

CacheTick == nticks < MaxTicks /\ \E d \in IdleTimes : Tick(d)

CacheWrite == \E bodies \in [Endpoints -> ProviderBodies] : CacheSet(bodies)

CacheRead == \E c \in Callers : CacheGet(c)

NextCache == CacheTick \/ CacheWrite \/ CacheRead

SpecCache == InitCache /\ [][NextCache]_vars

\* C7: a read of the slot holding setCachedWeather(d) at a time before
\* d.expiresAt returns data equal to d; at a time from d.expiresAt on it
\* returns null and leaves the slot empty; a read of the empty slot returns
\* null
C7_RoundTrip ==
  \A c \in Callers :
    calls[c].st = "read"
    => /\ (lastGood.kind = "data" /\ calls[c].seen = SetCachedWeather(lastGood)
             /\ calls[c].startedAt < lastGood.expiresAt)
          => calls[c].result = lastGood
       /\ (lastGood.kind = "data" /\ calls[c].seen = SetCachedWeather(lastGood)
             /\ calls[c].startedAt >= lastGood.expiresAt)
          => calls[c].result = NullData /\ calls[c].left = NoEntry
       /\ calls[c].seen = NoEntry
          => calls[c].result = NullData /\ calls[c].left = NoEntry

\* -------------------------------------------------- malformed numeric fields
\* one sub-fetch at a time, answered 2xx with a body in which one field read
\* for a number has any shape
LeafShapes ==
  {Leaf("undefined", 0), Leaf("null", 0), Leaf("NaN", 0), Leaf("number", 0),
   Leaf("number", 20), Leaf("number", -7), Leaf("string", 0),
   Leaf("string", 4)}

Shapes ==
  {Reached(<<l>>) : l \in LeafShapes}
  \cup {Obj(<<>>, <<>>)}
  \cup {Obj(<<l>>, <<>>) : l \in LeafShapes}

NumericProps ==
  {"temperature", "apparentTemperature", "feelsLike", "humidity", "wind",
   "windSpeed", "uvIndex", "uvIndexMax", "precipitationProbability",
   "maxTemperature", "minTemperature", "tempHigh", "tempLow"}

\* every item that differs from the well-formed one in one field
ShapedItems == {[GoodItem EXCEPT ![f] = x] : f \in NumericProps, x \in Shapes}

XformOk ==
  \E k \in Endpoints, item \in ShapedItems : RespondOk("A", k, <<item>>)

NextXform == SeqTick \/ RetryCall \/ XformOk

SpecXform == InitRetry /\ [][NextXform]_vars

\* missing, null, NaN, a string, or an object without the expected sub-field
Malformed(x) ==
  \/ x.tag \in {"undefined", "null", "NaN", "string"}
  \/ x.tag = "object" /\ x.sub = <<>>

AllNumbers(r) == \A f \in DOMAIN r : r[f].tag = "number"

\* C10: the numeric fields of a transformed observation or hour are numbers,
\* and each is its default (temperature 70, wind 0, humidity 50, UV 0,
\* precipitation 0) when the field it is read from is malformed
C10_DefaultsForMalformed ==
  \A c \in Callers, k \in {"current", "hourly"} :
    subs[c][k].st = "ok"
    => \A i \in 1..Len(subs[c][k].got) :
         LET in == subs[c][k].got[i]
             o == subs[c][k].out.nums[i]
         IN /\ AllNumbers(o)
            /\ Malformed(in.temperature) => o.temperature = Num(70)
            /\ Malformed(in.humidity) => o.humidity = Num(50)
            /\ (Malformed(in.wind) /\ Malformed(in.windSpeed))
               => o.windSpeed = Num(0)
            /\ Malformed(in.uvIndex) => o.uvIndex = Num(0)
            /\ Malformed(in.precipitationProbability)
               => o.precipitationProbability = Num(0)

\* the Celsius number the provider supplies in a temperature field, as
\* temperature.degrees or as a bare number; <<>> when it supplies none
SuppliedCelsius(x) ==
  CASE x.tag = "number" -> <<x.n>>
    [] x.tag = "object" /\ x.sub # <<>> /\ x.sub[1].tag = "number" -> <<x.sub[1].n>>
    [] OTHER -> <<>>

\* C11: the transformed temperature of an observation or hour is
\* round(c * 9/5 + 32) for the Celsius number c supplied as
\* temperature.degrees or as a bare number, c = 0 included, and it is the
\* default 70 when no number is supplied
C11_FahrenheitOfCelsius ==
  \A c \in Callers, k \in {"current", "hourly"} :
    subs[c][k].st = "ok"
    => \A i \in 1..Len(subs[c][k].got) :
         LET supplied == SuppliedCelsius(subs[c][k].got[i].temperature)
             o == subs[c][k].out.nums[i].temperature
         IN IF supplied = <<>> THEN o = Num(70)
            ELSE o = Num((supplied[1] * 18 + 5) \div 10 + 32)

\* -------------------------------------------------- the provider's lists
\* fetchAllWeather answered 2xx three times, the hourly and daily bodies
\* holding any list of up to two items: none (or no list at all), one, two
\* in either order of time
ListTimes == {JIso(0), JIso(3600000)}

ListItems == {[GoodItem EXCEPT !.time = t] : t \in ListTimes}

ListBodies ==
  {<<>>} \cup {<<a>> : a \in ListItems} \cup {<<a, b>> : a \in ListItems, b \in ListItems}

ListOk ==
  \E k \in Endpoints :
    \E body \in (IF k = "current" THEN Bodies ELSE ListBodies) :
      RespondOk("A", k, body)

NextLists == SeqCall \/ ListOk

SpecLists == InitRetry /\ [][NextLists]_vars

Chronological(dates) ==
  \A i \in 1..Len(dates), j \in 1..Len(dates) : i < j => dates[i] <= dates[j]

\* C12: the payload a fetchAllWeather call returns after three 2xx
\* responses has an hourly and a daily sequence that are non-empty and in
\* chronological order
C12_ListsOrderedNonEmpty ==
  \A c \in Callers :
    (calls[c].st = "resolved" /\ ~calls[c].hit)
    => /\ calls[c].result.hourly.dates # <<>>
       /\ calls[c].result.daily.dates # <<>>
       /\ Chronological(calls[c].result.hourly.dates)
       /\ Chronological(calls[c].result.daily.dates)

\* -------------------------------------------------- activity scoring
\* utils/constants.js
TEMP_THRESHOLDS ==
  [FREEZING |-> 32, VERY_COLD |-> 40, COLD |-> 50, COOL |-> 60,
   COMFORTABLE_LOW |-> 65, COMFORTABLE_HIGH |-> 75, WARM |-> 80, HOT |-> 85,
   VERY_HOT |-> 90, DANGEROUS |-> 95, TOO_COLD_FOR_PLAYGROUND |-> 45,
   IDEAL_OUTDOOR_LOW |-> 60, IDEAL_OUTDOOR_HIGH |-> 75,
   BABY_EXTRA_LAYER_BELOW |-> 65, BABY_TOO_COLD |-> 50, BABY_TOO_HOT |-> 85]

UV_THRESHOLDS ==
  [LOW |-> 2, MODERATE |-> 5, HIGH |-> 7, VERY_HIGH |-> 10, EXTREME |-> 11,
   SUNSCREEN_NEEDED |-> 3, HAT_NEEDED |-> 6, AVOID_MIDDAY |-> 8,
   LIMIT_EXPOSURE |-> 10]

RAIN_THRESHOLDS ==
  [UNLIKELY |-> 10, SLIGHT_CHANCE |-> 20, POSSIBLE |-> 30, LIKELY |-> 50,
   VERY_LIKELY |-> 70, ALMOST_CERTAIN |-> 90, PACK_UMBRELLA |-> 30,
   RAIN_BOOTS_NEEDED |-> 50, AVOID_OUTDOOR |-> 70]

HUMIDITY_THRESHOLDS ==
  [VERY_DRY |-> 20, DRY |-> 30, COMFORTABLE_LOW |-> 40,
   COMFORTABLE_HIGH |-> 60, HUMID |-> 70, VERY_HUMID |-> 80,
   OPPRESSIVE |-> 90]

WIND_THRESHOLDS ==
  [CALM |-> 5, LIGHT |-> 10, MODERATE |-> 15, BREEZY |-> 20, WINDY |-> 25,
   VERY_WINDY |-> 35, HIGH_WIND |-> 45]

\* the weights 0.35, 0.30, 0.15, 0.10, 0.10, in hundredths
ACTIVITY_WEIGHTS ==
  [TEMPERATURE |-> 35, RAIN_CHANCE |-> 30, UV_INDEX |-> 15, HUMIDITY |-> 10,
   WIND |-> 10]

ACTIVITY_QUALITY_THRESHOLDS == [PERFECT |-> 85, GOOD |-> 70, FAIR |-> 50]

Max(a, b) == IF a >= b THEN a ELSE b

\* a variant without Math.max(0, ...), for comparison
scoreTemperatureNoFloor(temp) ==
  IF temp < TEMP_THRESHOLDS.TOO_COLD_FOR_PLAYGROUND
  THEN 3 * (30 - (TEMP_THRESHOLDS.TOO_COLD_FOR_PLAYGROUND - temp) * 3)
  ELSE 300

\* scoreTemperature, in thirds of a point: the two sloping branches give
\* 50 + position * 50 / 15 and 100 - position * 30 / 5, whole numbers of
\* thirds for every integer temperature
scoreTemperature(temp) ==
  CASE temp >= TEMP_THRESHOLDS.IDEAL_OUTDOOR_LOW
         /\ temp <= TEMP_THRESHOLDS.IDEAL_OUTDOOR_HIGH -> 300
    [] temp < TEMP_THRESHOLDS.TOO_COLD_FOR_PLAYGROUND ->
         3 * Max(0, 30 - (TEMP_THRESHOLDS.TOO_COLD_FOR_PLAYGROUND - temp) * 3)
    [] temp >= TEMP_THRESHOLDS.TOO_COLD_FOR_PLAYGROUND
         /\ temp < TEMP_THRESHOLDS.IDEAL_OUTDOOR_LOW ->
         150 + ((temp - TEMP_THRESHOLDS.TOO_COLD_FOR_PLAYGROUND) * 150)
                 \div (TEMP_THRESHOLDS.IDEAL_OUTDOOR_LOW
                         - TEMP_THRESHOLDS.TOO_COLD_FOR_PLAYGROUND)
    [] temp > TEMP_THRESHOLDS.IDEAL_OUTDOOR_HIGH
         /\ temp <= TEMP_THRESHOLDS.WARM ->
         300 - ((temp - TEMP_THRESHOLDS.IDEAL_OUTDOOR_HIGH) * 90)
                 \div (TEMP_THRESHOLDS.WARM - TEMP_THRESHOLDS.IDEAL_OUTDOOR_HIGH)
    [] temp > TEMP_THRESHOLDS.WARM /\ temp <= TEMP_THRESHOLDS.HOT -> 150
    [] temp > TEMP_THRESHOLDS.HOT /\ temp <= TEMP_THRESHOLDS.VERY_HOT -> 90
    [] OTHER -> 30

scoreRainProbability(rainChance) ==
  CASE rainChance <= RAIN_THRESHOLDS.UNLIKELY -> 100
    [] rainChance > RAIN_THRESHOLDS.UNLIKELY
         /\ rainChance <= RAIN_THRESHOLDS.SLIGHT_CHANCE -> 90
    [] rainChance > RAIN_THRESHOLDS.SLIGHT_CHANCE
         /\ rainChance <= RAIN_THRESHOLDS.POSSIBLE -> 70
    [] rainChance > RAIN_THRESHOLDS.POSSIBLE
         /\ rainChance <= RAIN_THRESHOLDS.LIKELY -> 40
    [] rainChance > RAIN_THRESHOLDS.LIKELY
         /\ rainChance <= RAIN_THRESHOLDS.VERY_LIKELY -> 20
    [] OTHER -> 5

scoreUVIndex(uvIndex) ==
  CASE uvIndex <= UV_THRESHOLDS.LOW -> 100
    [] uvIndex > UV_THRESHOLDS.LOW /\ uvIndex <= UV_THRESHOLDS.MODERATE -> 90
    [] uvIndex > UV_THRESHOLDS.MODERATE /\ uvIndex <= UV_THRESHOLDS.HIGH -> 70
    [] uvIndex > UV_THRESHOLDS.HIGH /\ uvIndex <= UV_THRESHOLDS.VERY_HIGH -> 40
    [] OTHER -> 20

scoreHumidity(humidity) ==
  CASE humidity >= HUMIDITY_THRESHOLDS.COMFORTABLE_LOW
         /\ humidity <= HUMIDITY_THRESHOLDS.COMFORTABLE_HIGH -> 100
    [] humidity < HUMIDITY_THRESHOLDS.COMFORTABLE_LOW ->
         80 - (HUMIDITY_THRESHOLDS.COMFORTABLE_LOW - humidity)
    [] humidity > HUMIDITY_THRESHOLDS.COMFORTABLE_HIGH
         /\ humidity <= HUMIDITY_THRESHOLDS.HUMID -> 70
    [] humidity > HUMIDITY_THRESHOLDS.HUMID
         /\ humidity <= HUMIDITY_THRESHOLDS.VERY_HUMID -> 50
    [] OTHER -> 30

scoreWind(windSpeed) ==
  CASE windSpeed <= WIND_THRESHOLDS.CALM -> 100
    [] windSpeed > WIND_THRESHOLDS.CALM /\ windSpeed <= WIND_THRESHOLDS.LIGHT -> 90
    [] windSpeed > WIND_THRESHOLDS.LIGHT
         /\ windSpeed <= WIND_THRESHOLDS.MODERATE -> 75
    [] windSpeed > WIND_THRESHOLDS.MODERATE
         /\ windSpeed <= WIND_THRESHOLDS.BREEZY -> 50
    [] windSpeed > WIND_THRESHOLDS.BREEZY
         /\ windSpeed <= WIND_THRESHOLDS.WINDY -> 30
    [] OTHER -> 10

\* the weighted sum of calculateHourScore, in 300ths of a point
WeightedScore(hour) ==
  scoreTemperature(hour.temperature) * ACTIVITY_WEIGHTS.TEMPERATURE
  + 3 * (scoreRainProbability(hour.precipitationProbability)
           * ACTIVITY_WEIGHTS.RAIN_CHANCE
         + scoreUVIndex(hour.uvIndex) * ACTIVITY_WEIGHTS.UV_INDEX
         + scoreHumidity(hour.humidity) * ACTIVITY_WEIGHTS.HUMIDITY
         + scoreWind(hour.windSpeed) * ACTIVITY_WEIGHTS.WIND)

\* Math.round(weightedScore), the sum taken exactly
calculateHourScore(hour) == (2 * WeightedScore(hour) + 300) \div 600

getQualityFromScore(score) ==
  CASE score >= ACTIVITY_QUALITY_THRESHOLDS.PERFECT -> "perfect"
    [] score < ACTIVITY_QUALITY_THRESHOLDS.PERFECT
         /\ score >= ACTIVITY_QUALITY_THRESHOLDS.GOOD -> "good"
    [] score < ACTIVITY_QUALITY_THRESHOLDS.GOOD
         /\ score >= ACTIVITY_QUALITY_THRESHOLDS.FAIR -> "fair"
    [] OTHER -> "skip"

\* getHourReason; issues.join(', ') is held as the list of the issues, and
\* the two fixed reasons as lists of one string
getHourReason(hour, score) ==
  LET temperature ==
        CASE hour.temperature < TEMP_THRESHOLDS.TOO_COLD_FOR_PLAYGROUND ->
               <<"Too cold">>
          [] hour.temperature >= TEMP_THRESHOLDS.TOO_COLD_FOR_PLAYGROUND
               /\ hour.temperature < TEMP_THRESHOLDS.COOL -> <<"Chilly">>
          [] hour.temperature >= TEMP_THRESHOLDS.COOL
               /\ hour.temperature > TEMP_THRESHOLDS.HOT -> <<"Too hot">>
          [] hour.temperature >= TEMP_THRESHOLDS.COOL
               /\ hour.temperature <= TEMP_THRESHOLDS.HOT
               /\ hour.temperature > TEMP_THRESHOLDS.WARM -> <<"Warm">>
          [] OTHER -> <<>>
      rain ==
        CASE hour.precipitationProbability >= RAIN_THRESHOLDS.VERY_LIKELY ->
               <<"Rain likely">>
          [] hour.precipitationProbability < RAIN_THRESHOLDS.VERY_LIKELY
               /\ hour.precipitationProbability >= RAIN_THRESHOLDS.LIKELY ->
               <<"Chance of rain">>
          [] OTHER -> <<>>
      uv ==
        CASE hour.uvIndex >= UV_THRESHOLDS.VERY_HIGH -> <<"Extreme UV">>
          [] hour.uvIndex < UV_THRESHOLDS.VERY_HIGH
               /\ hour.uvIndex >= UV_THRESHOLDS.HIGH -> <<"High UV">>
          [] OTHER -> <<>>
      humidity ==
        CASE hour.humidity >= HUMIDITY_THRESHOLDS.OPPRESSIVE -> <<"Very humid">>
          [] hour.humidity < HUMIDITY_THRESHOLDS.OPPRESSIVE
               /\ hour.humidity >= HUMIDITY_THRESHOLDS.VERY_HUMID -> <<"Humid">>
          [] OTHER -> <<>>
      wind ==
        CASE hour.windSpeed >= WIND_THRESHOLDS.WINDY -> <<"Very windy">>
          [] hour.windSpeed < WIND_THRESHOLDS.WINDY
               /\ hour.windSpeed >= WIND_THRESHOLDS.BREEZY -> <<"Breezy">>
          [] OTHER -> <<>>
      issues == temperature \o rain \o uv \o humidity \o wind
  IN  IF issues = <<>>
      THEN IF score >= ACTIVITY_QUALITY_THRESHOLDS.PERFECT
           THEN <<"Perfect conditions">>
           ELSE <<"Good conditions">>
      ELSE issues

\* analyzeActivityWindows, what its hourly.map callback computes for one
\* hour, the five sub-scores kept beside the result
ScoredHour(h) ==
  [op |-> "calculateHourScore",
   hour |-> h,
   tempScore |-> scoreTemperature(h.temperature),
   rainScore |-> scoreRainProbability(h.precipitationProbability),
   uvScore |-> scoreUVIndex(h.uvIndex),
   humidityScore |-> scoreHumidity(h.humidity),
   windScore |-> scoreWind(h.windSpeed),
   score |-> calculateHourScore(h),
   quality |-> getQualityFromScore(calculateHourScore(h)),
   reason |-> getHourReason(h, calculateHourScore(h))]

\* valid hourly records: temperatures, rain and humidity percentages, UV
\* indices and wind speeds at both sides of every threshold and far out
HourTemperatures ==
  {-40, 30, 34, 35, 44, 45, 52, 59, 60, 75, 76, 78, 80, 81, 85, 86, 90, 91,
   130}

HourRainChances == {0, 10, 11, 20, 21, 30, 31, 50, 51, 70, 71, 100}

HourUVIndices == {0, 1, 2, 3, 5, 6, 7, 8, 10, 11}

HourHumidities == {0, 39, 40, 50, 60, 61, 70, 71, 80, 81, 100}

HourWindSpeeds == {0, 5, 6, 10, 11, 15, 16, 20, 21, 25, 26, 80}

ValidHours ==
  [temperature : HourTemperatures,
   precipitationProbability : HourRainChances,
   uvIndex : HourUVIndices,
   humidity : HourHumidities,
   windSpeed : HourWindSpeeds]

\* one hour is scored in a run
ScoreHour ==
  /\ analysis = NoAnalysis
  /\ \E h \in ValidHours : analysis' = ScoredHour(h)
  /\ UNCHANGED <<now, nticks, storage, calls, subs, hook, ncalls, lastGood,
               children, locs>>

NextScore == ScoreHour

SpecScore == InitRetry /\ [][NextScore]_vars

\* C13: for a valid hourly record each of the five sub-scores and the
\* rounded weighted hour score lies in [0,100] (the temperature sub-score
\* being held in thirds, in [0,300]), and the weights sum to 1
C13_ScoresInRange ==
  /\ ACTIVITY_WEIGHTS.TEMPERATURE + ACTIVITY_WEIGHTS.RAIN_CHANCE
       + ACTIVITY_WEIGHTS.UV_INDEX + ACTIVITY_WEIGHTS.HUMIDITY
       + ACTIVITY_WEIGHTS.WIND = 100
  /\ analysis.op = "calculateHourScore"
     => /\ analysis.tempScore >= 0 /\ analysis.tempScore <= 300
        /\ analysis.rainScore >= 0 /\ analysis.rainScore <= 100
        /\ analysis.uvScore >= 0 /\ analysis.uvScore <= 100
        /\ analysis.humidityScore >= 0 /\ analysis.humidityScore <= 100
        /\ analysis.windScore >= 0 /\ analysis.windScore <= 100
        /\ analysis.score >= 0 /\ analysis.score <= 100

\* C13 witness: an hour so cold that its temperature sub-score is held at 0
\* by Math.max, scored all the same
C13_Witness ==
  /\ analysis.op = "calculateHourScore"
  /\ analysis.hour.temperature = -40
  /\ analysis.tempScore = 0
  /\ analysis.score > 0

\* C17: an hour of 30 degrees, rain probability 0 and UV index 1 takes its
\* temperature sub-score from the too-cold branch and is of quality skip,
\* whatever its humidity and wind
C17_ColdHourIsSkip ==
  (/\ analysis.op = "calculateHourScore"
   /\ analysis.hour.temperature = 30
   /\ analysis.hour.precipitationProbability = 0
   /\ analysis.hour.uvIndex = 1)
  => /\ analysis.tempScore
          = 3 * Max(0, 30 - (TEMP_THRESHOLDS.TOO_COLD_FOR_PLAYGROUND - 30) * 3)
     /\ analysis.quality = "skip"

\* ---------------------------------------------------------------------
\* Activity windows (activityCalc.js, groupIntoWindows and
\* analyzeActivityWindows)
\* ---------------------------------------------------------------------

\* the longest hourly list analysed
MaxHours == 3

\* one hour, 60 * 60 * 1000 ms
HourMs == 3600000

TIME_CONFIG ==
  [MORNING_START |-> 6, MORNING_END |-> 9, MIDDAY_START |-> 11,
   MIDDAY_END |-> 14, AFTERNOON_START |-> 14, AFTERNOON_END |-> 18,
   DROPOFF_HOUR |-> 8, PICKUP_HOUR |-> 15,
   OUTDOOR_HOURS_START |-> 7, OUTDOOR_HOURS_END |-> 19]

\* Date.prototype.getHours of a valid date, the local zone taken as UTC
getHours(d) == (d \div HourMs) % 24

\* hourOfDay < OUTDOOR_HOURS_START || hourOfDay > OUTDOOR_HOURS_END; the
\* hour of an Invalid Date is NaN and both comparisons with NaN are false
OutOfRange(d) ==
  /\ d # InvalidDate
  /\ \/ getHours(d) < TIME_CONFIG.OUTDOOR_HOURS_START
     \/ getHours(d) > TIME_CONFIG.OUTDOOR_HOURS_END

\* Math.round(sum / n) for n > 0
RoundedMean(sum, n) == (2 * sum + n) \div (2 * n)

\* the entry analyzeActivityWindows makes for one hourly record
AnalyzedHour(h) ==
  [time |-> h.time,
   temperature |-> h.temperature,
   quality |-> getQualityFromScore(calculateHourScore(h)),
   score |-> calculateHourScore(h),
   reason |-> getHourReason(h, calculateHourScore(h)),
   rainChance |-> h.precipitationProbability,
   uvIndex |-> h.uvIndex]

\* a window opened by the hour at position i; its hours are held as
\* positions in the list of hours
NewWindow(hours, i) ==
  [startTime |-> hours[i].time, endTime |-> hours[i].time,
   quality |-> hours[i].quality, hours |-> <<i>>]

\* one turn of the loop of groupIntoWindows; acc.current is <<>> for null
GroupStep(acc, hours, i) ==
  IF OutOfRange(hours[i].time)
  THEN [windows |-> acc.windows \o acc.current, current |-> <<>>]
  ELSE IF acc.current # <<>>
       THEN IF hours[i].quality = acc.current[1].quality
            THEN [acc EXCEPT !.current =
                    <<[acc.current[1] EXCEPT !.endTime = hours[i].time,
                                             !.hours = Append(@, i)]>>]
            ELSE [windows |-> acc.windows \o acc.current,
                  current |-> <<NewWindow(hours, i)>>]
       ELSE [acc EXCEPT !.current = <<NewWindow(hours, i)>>]

RECURSIVE GroupFrom(_, _, _)
GroupFrom(acc, hours, i) ==
  IF i > Len(hours)
  THEN acc.windows \o acc.current
  ELSE GroupFrom(GroupStep(acc, hours, i), hours, i + 1)

RECURSIVE SumScores(_, _)
SumScores(hours, at) ==
  IF at = <<>> THEN 0 ELSE hours[Head(at)].score + SumScores(hours, Tail(at))

RECURSIVE SumTemperatures(_, _)
SumTemperatures(hours, at) ==
  IF at = <<>> THEN 0
  ELSE hours[Head(at)].temperature + SumTemperatures(hours, Tail(at))

\* the record groupIntoWindows returns for a window; the positions of the
\* window's hours are kept beside the returned fields
FormatWindow(hours, w) ==
  [startTime |-> w.startTime,
   endTime |-> IF w.endTime = InvalidDate THEN InvalidDate
               ELSE w.endTime + HourMs,
   quality |-> w.quality,
   avgScore |-> RoundedMean(SumScores(hours, w.hours), Len(w.hours)),
   avgTemp |-> RoundedMean(SumTemperatures(hours, w.hours), Len(w.hours)),
   hours |-> w.hours]

groupIntoWindows(hours) ==
  LET raw == GroupFrom([windows |-> <<>>, current |-> <<>>], hours, 1)
  IN  [i \in 1..Len(raw) |-> FormatWindow(hours, raw[i])]

\* a variant that also takes fair windows, for comparison
GoodQualityOrFair(q) == q \in {"perfect", "good", "fair"}

\* w.quality === 'perfect' || w.quality === 'good'
GoodQuality(q) == q \in {"perfect", "good"}

\* a variant that lets a later window of equal score win, for comparison
BetterNotWorse(w, best) == w.avgScore >= best.avgScore

\* w.avgScore > best.avgScore
Better(w, best) == w.avgScore > best.avgScore

\* goodWindows.reduce((best, w) => ...), from the window at position i on
RECURSIVE ReduceBest(_, _, _)
ReduceBest(ws, i, best) ==
  IF i > Len(ws) THEN best
  ELSE ReduceBest(ws, i + 1, IF Better(ws[i], best) THEN ws[i] ELSE best)

\* bestWindow, <<>> for null
BestWindow(windows) ==
  LET goodWindows == SelectSeq(windows, LAMBDA w : GoodQuality(w.quality))
  IN  IF Len(goodWindows) > 0
      THEN <<ReduceBest(goodWindows, 2, goodWindows[1])>>
      ELSE <<>>

CountQuality(hours, q) ==
  Cardinality({i \in 1..Len(hours) : hours[i].quality = q})

DaySummary(hours) ==
  LET perfectCount == CountQuality(hours, "perfect")
      goodCount == CountQuality(hours, "good")
      skipCount == CountQuality(hours, "skip")
  IN  CASE perfectCount >= 4 -> "Great day for outdoor activities!"
        [] perfectCount < 4 /\ perfectCount + goodCount >= 4 ->
             "Good opportunities for outdoor time today"
        [] perfectCount + goodCount < 4 /\ perfectCount + goodCount >= 2 ->
             "Limited outdoor windows today"
        [] perfectCount + goodCount < 2 /\ 2 * skipCount > Len(hours) ->
             "Challenging day - plan indoor activities"
        [] OTHER -> "Mixed conditions - check hourly forecast"

analyzeActivityWindows(hourly) ==
  LET hours == [i \in 1..Len(hourly) |-> AnalyzedHour(hourly[i])]
      windows == groupIntoWindows(hours)
  IN  [op |-> "analyzeActivityWindows",
       hourly |-> hourly,
       hours |-> hours,
       windows |-> windows,
       bestWindow |-> BestWindow(windows),
       daySummary |-> DaySummary(hours),
       hasGoodWindows |->
         \E i \in 1..Len(windows) : GoodQuality(windows[i].quality)]

\* the times of the hourly records analysed: the hours 6, 7, 19 and 20 of
\* the first day, and the Invalid Date transformHourlyForecast makes of a
\* missing or unreadable time
WindowTimes == {6 * HourMs, 7 * HourMs, 19 * HourMs, 20 * HourMs, InvalidDate}

\* weather scoring 100 and 99 (perfect), 82 (good), 65 (fair), 37 (skip)
WindowWeathers ==
  {[temperature |-> 70, precipitationProbability |-> 0, uvIndex |-> 1,
    humidity |-> 50, windSpeed |-> 0],
   [temperature |-> 70, precipitationProbability |-> 0, uvIndex |-> 1,
    humidity |-> 50, windSpeed |-> 6],
   [temperature |-> 70, precipitationProbability |-> 40, uvIndex |-> 1,
    humidity |-> 50, windSpeed |-> 0],
   [temperature |-> 30, precipitationProbability |-> 0, uvIndex |-> 1,
    humidity |-> 50, windSpeed |-> 0],
   [temperature |-> 30, precipitationProbability |-> 100, uvIndex |-> 1,
    humidity |-> 50, windSpeed |-> 0]}

WindowHours ==
  {[time |-> t, temperature |-> w.temperature,
    precipitationProbability |-> w.precipitationProbability,
    uvIndex |-> w.uvIndex, humidity |-> w.humidity,
    windSpeed |-> w.windSpeed] : t \in WindowTimes, w \in WindowWeathers}

HourlyLists == UNION {[1..n -> WindowHours] : n \in 0..MaxHours}

\* one hourly list is analysed in a run
Analyze ==
  /\ analysis = NoAnalysis
  /\ \E hourly \in HourlyLists : analysis' = analyzeActivityWindows(hourly)
  /\ UNCHANGED <<now, nticks, storage, calls, subs, hook, ncalls, lastGood,
               children, locs>>

NextWindows == Analyze

SpecWindows == InitRetry /\ [][NextWindows]_vars

Analyzed == analysis.op = "analyzeActivityWindows"

\* the hour at position i lies in the outdoor range [7, 19]
InRange(hours, i) ==
  /\ hours[i].time # InvalidDate
  /\ getHours(hours[i].time) >= TIME_CONFIG.OUTDOOR_HOURS_START
  /\ getHours(hours[i].time) <= TIME_CONFIG.OUTDOOR_HOURS_END

\* C14: every window holds hours of one quality only and hours of the day
\* within [7, 19] only; the hours of a window are consecutive in the list, so
\* runs separated by an out-of-range hour are never merged; and two
\* neighbouring windows with no hour between them differ in quality
C14_WindowsHomogeneousInRange ==
  Analyzed =>
    LET hours == analysis.hours
        ws == analysis.windows
    IN  /\ \A k \in 1..Len(ws) :
             /\ \A j \in 1..Len(ws[k].hours) :
                  /\ hours[ws[k].hours[j]].quality = ws[k].quality
                  /\ InRange(hours, ws[k].hours[j])
             /\ \A j \in 1..(Len(ws[k].hours) - 1) :
                  ws[k].hours[j + 1] = ws[k].hours[j] + 1
        /\ \A k \in 1..(Len(ws) - 1) :
             ws[k + 1].hours[1] = ws[k].hours[Len(ws[k].hours)] + 1
               => ws[k + 1].quality # ws[k].quality

\* the same for the lists in which every time is a valid date
C14_ValidTimesOnly ==
  (Analyzed /\ \A i \in 1..Len(analysis.hourly) :
                 analysis.hourly[i].time # InvalidDate)
    => C14_WindowsHomogeneousInRange

\* the positions of the perfect and good windows of the last analysis
GoodWindowPositions ==
  {k \in 1..Len(analysis.windows) :
     analysis.windows[k].quality \in {"perfect", "good"}}

\* the positions of its perfect, good and fair windows
NonSkipWindowPositions ==
  {k \in 1..Len(analysis.windows) : analysis.windows[k].quality # "skip"}

\* the window at position k has the highest average score of those at S
TopOf(k, S) ==
  /\ k \in S
  /\ \A m \in S : analysis.windows[m].avgScore <= analysis.windows[k].avgScore

\* C15: bestWindow is the earliest of the perfect or good windows that have
\* the highest average score among the perfect and good windows, and it is
\* null exactly when there is no perfect or good window
C15_BestIsFirstMaxOfGood ==
  Analyzed =>
    IF GoodWindowPositions = {}
    THEN analysis.bestWindow = <<>>
    ELSE \E k \in GoodWindowPositions :
           /\ TopOf(k, GoodWindowPositions)
           /\ \A m \in GoodWindowPositions :
                TopOf(m, GoodWindowPositions) => k <= m
           /\ analysis.bestWindow = <<analysis.windows[k]>>

\* two perfect or good windows share the highest average score and the
\* earlier one is the best window
C15_Witness ==
  /\ Analyzed
  /\ \E k, m \in GoodWindowPositions :
       /\ k < m
       /\ TopOf(k, GoodWindowPositions)
       /\ TopOf(m, GoodWindowPositions)
       /\ analysis.bestWindow = <<analysis.windows[k]>>

\* C16, as stated: whenever a window that is not skip exists, bestWindow is
\* present and has the highest average score among the windows that are
\* not skip
C16_BestAmongNonSkip ==
  (Analyzed /\ NonSkipWindowPositions # {}) =>
    /\ analysis.bestWindow # <<>>
    /\ \E k \in NonSkipWindowPositions :
         /\ TopOf(k, NonSkipWindowPositions)
         /\ analysis.bestWindow = <<analysis.windows[k]>>

\* C16, amended: a fair window is never the best window; bestWindow is
\* present exactly when a perfect or good window exists, it is then a
\* perfect or good window and no window that is not skip has a higher
\* average score; when the only windows that are not skip are fair,
\* bestWindow is null
C16_BestNeverFair ==
  Analyzed =>
    /\ analysis.bestWindow # <<>> <=> GoodWindowPositions # {}
    /\ analysis.bestWindow # <<>> =>
         /\ analysis.bestWindow[1].quality \in {"perfect", "good"}
         /\ \A m \in NonSkipWindowPositions :
              analysis.windows[m].avgScore <= analysis.bestWindow[1].avgScore

\* a fair window exists, no perfect or good one does, and bestWindow is null
C16_Witness ==
  /\ Analyzed
  /\ NonSkipWindowPositions # {}
  /\ GoodWindowPositions = {}
  /\ analysis.bestWindow = <<>>

\* ---------------------------------------------------------------------
\* Outfit recommendation (activityCalc.js, outfit engine)
\* ---------------------------------------------------------------------

\* the longest hourly list an outfit is composed from
MaxOutfitHours == 2

\* AGE_GROUPS; extraLayers (1, 0.5, 0, 0) in halves of a layer
AGE_GROUPS ==
  [BABY |-> [maxMonths |-> 12, label |-> "baby", extraLayers |-> 2],
   TODDLER |-> [maxMonths |-> 36, label |-> "toddler", extraLayers |-> 1],
   PRESCHOOL |-> [maxMonths |-> 60, label |-> "preschool", extraLayers |-> 0],
   SCHOOL_AGE |->
     [maxMonths |-> 144, label |-> "school-age", extraLayers |-> 0]]

getAgeGroup(ageMonths) ==
  CASE ageMonths <= AGE_GROUPS.BABY.maxMonths -> "baby"
    [] ageMonths > AGE_GROUPS.BABY.maxMonths
         /\ ageMonths <= AGE_GROUPS.TODDLER.maxMonths -> "toddler"
    [] ageMonths > AGE_GROUPS.TODDLER.maxMonths
         /\ ageMonths <= AGE_GROUPS.PRESCHOOL.maxMonths -> "preschool"
    [] OTHER -> "school-age"

\* getExtraLayers, in halves of a layer
getExtraLayers(ageMonths) ==
  CASE ageMonths <= AGE_GROUPS.BABY.maxMonths -> AGE_GROUPS.BABY.extraLayers
    [] ageMonths > AGE_GROUPS.BABY.maxMonths
         /\ ageMonths <= AGE_GROUPS.TODDLER.maxMonths ->
         AGE_GROUPS.TODDLER.extraLayers
    [] OTHER -> 0

\* CLOTHING_ITEMS, the layer of every item id
CLOTHING_ITEMS ==
  [onesie |-> "base", tshirt |-> "base", longSleeve |-> "base",
   shorts |-> "base", pants |-> "base",
   lightSweater |-> "mid", fleece |-> "mid",
   lightJacket |-> "outer", rainJacket |-> "outer", winterCoat |-> "outer",
   puffer |-> "outer",
   sandals |-> "footwear", sneakers |-> "footwear", boots |-> "footwear",
   rainBoots |-> "footwear", winterBoots |-> "footwear",
   sunHat |-> "accessory", winterHat |-> "accessory",
   sunglasses |-> "accessory", sunscreen |-> "accessory",
   mittens |-> "accessory", gloves |-> "accessory", scarf |-> "accessory",
   umbrella |-> "accessory"]

\* { ...CLOTHING_ITEMS.X, required }; name, emoji and reason are left out
Item(id, required) ==
  [id |-> id, layer |-> CLOTHING_ITEMS[id], required |-> required]

getTempCategory(temp) ==
  CASE temp < TEMP_THRESHOLDS.COLD -> "cold"
    [] temp >= TEMP_THRESHOLDS.COLD /\ temp < TEMP_THRESHOLDS.COOL -> "cool"
    [] temp >= TEMP_THRESHOLDS.COOL /\ temp < TEMP_THRESHOLDS.WARM ->
         "comfortable"
    [] temp >= TEMP_THRESHOLDS.WARM /\ temp < TEMP_THRESHOLDS.HOT -> "warm"
    [] OTHER -> "hot"

\* the hours of a list whose hour of the day lies in [from, to]; the hour of
\* an Invalid Date is NaN and passes no comparison
HoursBetween(hourly, from, to) ==
  SelectSeq(hourly, LAMBDA h : /\ h.time # InvalidDate
                               /\ getHours(h.time) >= from
                               /\ getHours(h.time) <= to)

RECURSIVE SumTemps(_)
SumTemps(hs) ==
  IF hs = <<>> THEN 0 ELSE Head(hs).temperature + SumTemps(Tail(hs))

\* hourly[i]?.temperature || fallback
TemperatureOr(hourly, i, fallback) ==
  IF i \in 1..Len(hourly) /\ hourly[i].temperature # 0
  THEN hourly[i].temperature
  ELSE fallback

Abs(x) == IF x < 0 THEN -x ELSE x

\* analyzeDayTemperatures; currentHour is new Date().getHours()
analyzeDayTemperatures(hourly, currentHour) ==
  LET morningHours ==
        HoursBetween(hourly, TIME_CONFIG.MORNING_START, TIME_CONFIG.MORNING_END)
      afternoonHours ==
        HoursBetween(hourly, TIME_CONFIG.AFTERNOON_START,
                     TIME_CONFIG.AFTERNOON_END)
      morningTemp ==
        IF Len(morningHours) > 0
        THEN RoundedMean(SumTemps(morningHours), Len(morningHours))
        ELSE TemperatureOr(hourly, 1, 65)
      afternoonTemp ==
        IF Len(afternoonHours) > 0
        THEN RoundedMean(SumTemps(afternoonHours), Len(afternoonHours))
        ELSE TemperatureOr(hourly, Len(hourly), 70)
      effectiveMorning ==
        IF currentHour >= TIME_CONFIG.MIDDAY_START
        THEN TemperatureOr(hourly, 1, morningTemp)
        ELSE morningTemp
  IN  [morning |-> effectiveMorning,
       afternoon |-> afternoonTemp,
       swing |-> Abs(afternoonTemp - effectiveMorning)]

getBaseLayers(temp, ageGroup) ==
  LET top == IF temp < TEMP_THRESHOLDS.COOL
             THEN <<Item("longSleeve", TRUE)>>
             ELSE <<Item("tshirt", TRUE)>>
      onesie == IF ageGroup = "baby" /\ temp < TEMP_THRESHOLDS.COMFORTABLE_LOW
                THEN <<Item("onesie", TRUE)>>
                ELSE <<>>
      bottoms == IF temp < TEMP_THRESHOLDS.WARM
                 THEN <<Item("pants", TRUE)>>
                 ELSE <<Item("shorts", TRUE)>>
  IN  onesie \o top \o bottoms

\* a variant that takes every child for a five-year-old, for comparison
ProxyMonthsFlat(ageGroup) == 60

\* the age in months getMidLayers passes to getExtraLayers
ProxyMonths(ageGroup) ==
  CASE ageGroup = "baby" -> 6
    [] ageGroup = "toddler" -> 24
    [] OTHER -> 60

getMidLayers(temp, afternoonTemp, ageGroup) ==
  LET extraLayers == getExtraLayers(ProxyMonths(ageGroup))
      adjustedThreshold == TEMP_THRESHOLDS.COOL + extraLayers * 5
      items ==
        CASE temp < TEMP_THRESHOLDS.VERY_COLD -> <<Item("fleece", TRUE)>>
          [] temp >= TEMP_THRESHOLDS.VERY_COLD /\ temp < TEMP_THRESHOLDS.COLD ->
               <<Item("lightSweater", TRUE)>>
          [] temp >= TEMP_THRESHOLDS.COLD /\ temp < adjustedThreshold ->
               <<Item("lightSweater", FALSE)>>
          [] OTHER -> <<>>
  IN  IF /\ afternoonTemp - temp > 15
         /\ temp < TEMP_THRESHOLDS.COMFORTABLE_HIGH
         /\ ~ \E i \in 1..Len(items) : items[i].layer = "mid"
      THEN Append(items, Item("lightSweater", FALSE))
      ELSE items

getOuterLayers(temp, rainChance, ageGroup) ==
  LET byTemp ==
        CASE temp < TEMP_THRESHOLDS.FREEZING -> <<Item("winterCoat", TRUE)>>
          [] temp >= TEMP_THRESHOLDS.FREEZING
               /\ temp < TEMP_THRESHOLDS.VERY_COLD -> <<Item("puffer", TRUE)>>
          [] temp >= TEMP_THRESHOLDS.VERY_COLD /\ temp < TEMP_THRESHOLDS.COLD ->
               <<Item("lightJacket", TRUE)>>
          [] temp >= TEMP_THRESHOLDS.COLD /\ temp < TEMP_THRESHOLDS.COOL ->
               <<Item("lightJacket", FALSE)>>
          [] OTHER -> <<>>
      rainGear ==
        CASE rainChance >= RAIN_THRESHOLDS.VERY_LIKELY ->
               <<Item("rainJacket", TRUE)>>
          [] rainChance < RAIN_THRESHOLDS.VERY_LIKELY
               /\ rainChance >= RAIN_THRESHOLDS.PACK_UMBRELLA ->
               <<Item("rainJacket", FALSE)>>
          [] OTHER -> <<>>
  IN  byTemp \o rainGear

\* getFootwear with recentRain at its default, false
getFootwear(temp, rainChance) ==
  CASE temp < TEMP_THRESHOLDS.FREEZING -> Item("winterBoots", TRUE)
    [] temp >= TEMP_THRESHOLDS.FREEZING
         /\ rainChance >= RAIN_THRESHOLDS.RAIN_BOOTS_NEEDED ->
         Item("rainBoots", TRUE)
    [] temp >= TEMP_THRESHOLDS.FREEZING
         /\ rainChance < RAIN_THRESHOLDS.RAIN_BOOTS_NEEDED
         /\ temp < TEMP_THRESHOLDS.COLD -> Item("boots", TRUE)
    [] temp >= TEMP_THRESHOLDS.HOT
         /\ rainChance < RAIN_THRESHOLDS.RAIN_BOOTS_NEEDED ->
         Item("sandals", TRUE)
    [] OTHER -> Item("sneakers", TRUE)

getAccessories(temp, uvIndex, rainChance, ageGroup) ==
  LET cold ==
        CASE temp < TEMP_THRESHOLDS.FREEZING ->
               <<Item("winterHat", TRUE), Item("mittens", TRUE),
                 Item("scarf", TRUE)>>
          [] temp >= TEMP_THRESHOLDS.FREEZING
               /\ temp < TEMP_THRESHOLDS.VERY_COLD ->
               <<Item("winterHat", TRUE),
                 IF ageGroup \in {"baby", "toddler"}
                 THEN Item("mittens", TRUE)
                 ELSE Item("gloves", FALSE)>>
          [] temp >= TEMP_THRESHOLDS.VERY_COLD /\ temp < TEMP_THRESHOLDS.COLD ->
               <<Item("winterHat", FALSE)>>
          [] OTHER -> <<>>
      sunscreen == IF uvIndex >= UV_THRESHOLDS.SUNSCREEN_NEEDED
                   THEN <<Item("sunscreen", TRUE)>> ELSE <<>>
      sunHat == IF uvIndex >= UV_THRESHOLDS.HAT_NEEDED
                THEN <<Item("sunHat", TRUE)>> ELSE <<>>
      sunglasses == IF uvIndex >= UV_THRESHOLDS.MODERATE
                    THEN <<Item("sunglasses", FALSE)>> ELSE <<>>
      umbrella == IF /\ rainChance >= RAIN_THRESHOLDS.PACK_UMBRELLA
                     /\ rainChance < RAIN_THRESHOLDS.RAIN_BOOTS_NEEDED
                  THEN <<Item("umbrella", FALSE)>> ELSE <<>>
  IN  cold \o sunscreen \o sunHat \o sunglasses \o umbrella

\* a variant that keeps every item, for comparison
KeepsAll(item, seenLayers) == TRUE

\* the filter callback of the deduplication: is the item kept
Keeps(item, seenLayers) ==
  item.layer = "accessory" \/ item.layer \notin seenLayers

\* allItems.filter(...) with the seenLayers set
RECURSIVE Deduplicate(_, _)
Deduplicate(allItems, seenLayers) ==
  IF allItems = <<>> THEN <<>>
  ELSE LET item == Head(allItems)
       IN  IF Keeps(item, seenLayers)
           THEN <<item>> \o Deduplicate(Tail(allItems),
                              IF item.layer = "accessory" THEN seenLayers
                              ELSE seenLayers \cup {item.layer})
           ELSE Deduplicate(Tail(allItems), seenLayers)

\* hourly.reduce(...): the highest hourly rain probability above max
RECURSIVE MaxRainOf(_, _)
MaxRainOf(hourly, max) ==
  IF hourly = <<>> THEN max
  ELSE MaxRainOf(Tail(hourly),
                 IF Head(hourly).precipitationProbability > max
                 THEN Head(hourly).precipitationProbability ELSE max)

RECURSIVE MaxUVOf(_, _)
MaxUVOf(hourly, max) ==
  IF hourly = <<>> THEN max
  ELSE MaxUVOf(Tail(hourly), Max(max, Head(hourly).uvIndex))

generateOutfitRecommendation(child, weather, currentHour) ==
  LET temps == analyzeDayTemperatures(weather.hourly, currentHour)
      ageGroup == getAgeGroup(child.ageMonths)
      hourlyRain == MaxRainOf(weather.hourly, 0)
      maxRainChance == IF hourlyRain # 0 THEN hourlyRain
                       ELSE weather.current.precipitationProbability
      maxUV == MaxUVOf(weather.hourly, weather.current.uvIndex)
      allItems ==
        getBaseLayers(temps.morning, ageGroup)
        \o getMidLayers(temps.morning, temps.afternoon, ageGroup)
        \o getOuterLayers(temps.morning, maxRainChance, ageGroup)
        \o <<getFootwear(temps.morning, maxRainChance)>>
        \o getAccessories(temps.morning, maxUV, maxRainChance, ageGroup)
  IN  [op |-> "generateOutfitRecommendation",
       child |-> child,
       weather |-> weather,
       currentHour |-> currentHour,
       ageGroup |-> ageGroup,
       allItems |-> allItems,
       items |-> Deduplicate(allItems, {}),
       tempCategory |-> getTempCategory(temps.morning),
       needsRainGear |-> maxRainChance >= RAIN_THRESHOLDS.PACK_UMBRELLA,
       needsSunProtection |-> maxUV >= UV_THRESHOLDS.SUNSCREEN_NEEDED,
       morningTemp |-> temps.morning,
       afternoonTemp |-> temps.afternoon,
       tempSwing |-> temps.swing]

\* the hourly records of the payloads: a morning and an afternoon hour, a
\* temperature in every outerwear band, dry, possible and very likely rain
OutfitHours ==
  [time : {8 * HourMs, 15 * HourMs},
   temperature : {20, 35, 45, 55, 80},
   precipitationProbability : {0, 40, 80},
   uvIndex : {0}]

OutfitHourlyLists == UNION {[1..n -> OutfitHours] : n \in 0..MaxOutfitHours}

OutfitCurrents == [uvIndex : {0, 6}, precipitationProbability : {40}]

OutfitChildren == [ageMonths : {6, 24, 48}]

\* the hour of the day at which the outfit is composed
OutfitClockHours == {8, 12}

\* the outfit of one child is composed in a run
ComposeOutfit ==
  /\ analysis = NoAnalysis
  /\ \E child \in OutfitChildren, hourly \in OutfitHourlyLists,
        current \in OutfitCurrents, currentHour \in OutfitClockHours :
       analysis' = generateOutfitRecommendation(
                     child, [current |-> current, hourly |-> hourly],
                     currentHour)
  /\ UNCHANGED <<now, nticks, storage, calls, subs, hook, ncalls, lastGood,
               children, locs>>

NextOutfit == ComposeOutfit

SpecOutfit == InitRetry /\ [][NextOutfit]_vars

Composed == analysis.op = "generateOutfitRecommendation"

OutfitLayers == {"base", "mid", "outer", "footwear"}

\* the positions in a list of items of those of a layer
Of(items, layer) == {i \in 1..Len(items) : items[i].layer = layer}

\* the first item of a layer in a list that has one
FirstOf(items, layer) ==
  items[CHOOSE i \in Of(items, layer) : \A j \in Of(items, layer) : i <= j]

\* C18: the items of an outfit hold at most one item of each of the layers
\* base, mid, outer and footwear, the first one the generators selected for
\* that layer, and they hold every selected accessory, in the order selected
C18_OneItemPerLayer ==
  Composed =>
    /\ \A layer \in OutfitLayers :
         /\ Cardinality(Of(analysis.items, layer)) <= 1
         /\ Of(analysis.allItems, layer) # {} =>
              /\ Of(analysis.items, layer) # {}
              /\ FirstOf(analysis.items, layer)
                   = FirstOf(analysis.allItems, layer)
         /\ Of(analysis.allItems, layer) = {} => Of(analysis.items, layer) = {}
    /\ SelectSeq(analysis.items, LAMBDA i : i.layer = "accessory")
         = SelectSeq(analysis.allItems, LAMBDA i : i.layer = "accessory")

\* two outer items were selected, a winter coat and then a required rain
\* jacket, and only the coat is in the outfit, beside three accessories
C18_Witness ==
  /\ Composed
  /\ Cardinality(Of(analysis.allItems, "outer")) = 2
  /\ FirstOf(analysis.allItems, "outer").id = "winterCoat"
  /\ \E i \in Of(analysis.allItems, "outer") :
       analysis.allItems[i] = Item("rainJacket", TRUE)
  /\ Cardinality(Of(analysis.items, "outer")) = 1
  /\ Cardinality(Of(analysis.items, "accessory")) >= 3

\* ---------------------------------------------------------------------
\* Smart tips (smartTips.js)
\* ---------------------------------------------------------------------

\* the longest hourly list tips are generated from
MaxTipHours == 2

\* one day, in ms
DayMs == 24 * HourMs

\* Date.prototype.getDay of a valid date, 0 for Sunday; the first day of the
\* epoch is a Thursday
getDay(d) == ((d \div DayMs) + 4) % 7

\* createTip({type, priority, title, category}); the id, the emoji and the
\* message are left out, a call gives no two tips the same title
createTip(type, priority, title, category) ==
  [type |-> type, priority |-> priority, title |-> title,
   category |-> category]

\* Math.min(...xs) and Math.max(...xs) of the numbers at the positions of a
\* list; a list is never empty where they are used
RECURSIVE MaxTemperature(_)
MaxTemperature(hourly) ==
  IF Len(hourly) = 1 THEN hourly[1].temperature
  ELSE Max(hourly[1].temperature, MaxTemperature(Tail(hourly)))

RECURSIVE MinTemperature(_)
MinTemperature(hourly) ==
  IF Len(hourly) = 1 THEN hourly[1].temperature
  ELSE -Max(-hourly[1].temperature, -MinTemperature(Tail(hourly)))

RECURSIVE MaxWindOf(_, _)
MaxWindOf(hourly, max) ==
  IF hourly = <<>> THEN max
  ELSE MaxWindOf(Tail(hourly), Max(max, Head(hourly).windSpeed))

\* maxTemp - minTemp; for an empty list -Infinity - Infinity = -Infinity,
\* held as -1, below every threshold
TemperatureSwing(hourly) ==
  IF hourly = <<>> THEN -1
  ELSE MaxTemperature(hourly) - MinTemperature(hourly)

generateTemperatureTips(weather) ==
  LET current == weather.current
      swing == TemperatureSwing(weather.hourly)
      swingTips ==
        CASE swing >= 25 ->
               <<createTip("alert", "high", "Major Temperature Swing",
                           "temperature")>>
          [] swing < 25 /\ swing >= 18 ->
               <<createTip("warning", "medium", "Temperature Swing",
                           "temperature")>>
          [] swing < 18 /\ swing >= 12 ->
               <<createTip("info", "low", "Moderate Temperature Change",
                           "temperature")>>
          [] OTHER -> <<>>
      coldTips ==
        CASE current.temperature < TEMP_THRESHOLDS.FREEZING ->
               <<createTip("alert", "high", "Freezing Temperatures",
                           "temperature")>>
          [] current.temperature >= TEMP_THRESHOLDS.FREEZING
               /\ current.temperature < TEMP_THRESHOLDS.VERY_COLD ->
               <<createTip("warning", "medium", "Very Cold Outside",
                           "temperature")>>
          [] OTHER -> <<>>
      heatTips ==
        CASE current.temperature >= TEMP_THRESHOLDS.DANGEROUS ->
               <<createTip("alert", "high", "Dangerous Heat", "temperature")>>
          [] current.temperature < TEMP_THRESHOLDS.DANGEROUS
               /\ current.temperature >= TEMP_THRESHOLDS.VERY_HOT ->
               <<createTip("warning", "high", "Very Hot Today",
                           "temperature")>>
          [] current.temperature < TEMP_THRESHOLDS.VERY_HOT
               /\ current.temperature >= TEMP_THRESHOLDS.HOT ->
               <<createTip("info", "medium", "Hot Weather", "temperature")>>
          [] OTHER -> <<>>
  IN  swingTips \o coldTips \o heatTips

\* the hours of a list in [from, to] with rain likely
LikelyRainBetween(hourly, from, to) ==
  SelectSeq(HoursBetween(hourly, from, to),
            LAMBDA h : h.precipitationProbability >= RAIN_THRESHOLDS.LIKELY)

generateRainTips(weather) ==
  LET hourly == weather.hourly
      rainyHours ==
        SelectSeq(hourly,
          LAMBDA h : h.precipitationProbability >= RAIN_THRESHOLDS.LIKELY)
      hadEarlyRain ==
        \E i \in 1..Len(hourly) :
          /\ i <= 3
          /\ hourly[i].precipitationProbability >= RAIN_THRESHOLDS.POSSIBLE
      pickupRain ==
        LikelyRainBetween(hourly, TIME_CONFIG.PICKUP_HOUR - 1,
                          TIME_CONFIG.PICKUP_HOUR + 1)
      afternoonRain ==
        LikelyRainBetween(hourly, TIME_CONFIG.AFTERNOON_START,
                          TIME_CONFIG.AFTERNOON_END)
  IN  IF Len(rainyHours) = 0
      THEN IF hadEarlyRain
           THEN <<createTip("info", "low", "Wet Morning", "rain")>>
           ELSE <<>>
      ELSE (IF Len(HoursBetween(<<rainyHours[1]>>, TIME_CONFIG.MORNING_START,
                                TIME_CONFIG.MORNING_END)) > 0
            THEN <<createTip("warning", "high", "Rain at Dropoff", "rain")>>
            ELSE <<>>)
           \o (IF Len(pickupRain) > 0
               THEN <<createTip("warning", "high", "Rain at Pickup Time",
                                "rain")>>
               ELSE <<>>)
           \o (IF Len(afternoonRain) > 0 /\ Len(pickupRain) = 0
               THEN <<createTip("info", "medium", "Afternoon Rain Expected",
                                "rain")>>
               ELSE <<>>)
           \o (IF 10 * Len(rainyHours) >= 6 * Len(hourly)
               THEN <<createTip("warning", "high", "Rainy Day", "rain")>>
               ELSE <<>>)

\* Math.max() of no number is -Infinity, held as -1
generateUVTips(weather) ==
  LET maxUV == MaxUVOf(weather.hourly, -1)
  IN  CASE maxUV >= UV_THRESHOLDS.EXTREME ->
             <<createTip("alert", "high", "Extreme UV", "uv")>>
        [] maxUV < UV_THRESHOLDS.EXTREME /\ maxUV >= UV_THRESHOLDS.VERY_HIGH ->
             <<createTip("warning", "high", "Very High UV", "uv")>>
        [] maxUV < UV_THRESHOLDS.VERY_HIGH /\ maxUV >= UV_THRESHOLDS.HIGH ->
             <<createTip("info", "medium", "High UV Today", "uv")>>
        [] OTHER -> <<>>

generateComfortTips(weather) ==
  LET current == weather.current
      maxWind == MaxWindOf(weather.hourly, -1)
      humid ==
        CASE current.humidity >= HUMIDITY_THRESHOLDS.VERY_HUMID
               /\ current.temperature >= TEMP_THRESHOLDS.WARM ->
               <<createTip("warning", "medium", "Humid & Hot", "comfort")>>
          [] ~(current.humidity >= HUMIDITY_THRESHOLDS.VERY_HUMID
                 /\ current.temperature >= TEMP_THRESHOLDS.WARM)
               /\ current.humidity >= HUMIDITY_THRESHOLDS.OPPRESSIVE ->
               <<createTip("info", "low", "Very Humid", "comfort")>>
          [] OTHER -> <<>>
      windy ==
        CASE maxWind >= WIND_THRESHOLDS.VERY_WINDY ->
               <<createTip("warning", "medium", "Very Windy", "wind")>>
          [] maxWind < WIND_THRESHOLDS.VERY_WINDY
               /\ maxWind >= WIND_THRESHOLDS.WINDY
               /\ current.temperature < TEMP_THRESHOLDS.COOL ->
               <<createTip("info", "medium", "Wind Chill Factor", "wind")>>
          [] OTHER -> <<>>
  IN  humid \o windy

generatePlaygroundTips(weather) ==
  LET current == weather.current
      hourly == weather.hourly
      recentRain ==
        \E i \in 1..Len(hourly) :
          /\ i <= 4
          /\ hourly[i].precipitationProbability >= RAIN_THRESHOLDS.VERY_LIKELY
  IN  (IF current.temperature >= TEMP_THRESHOLDS.HOT
       THEN <<createTip("warning", "high", "Hot Playground Equipment",
                        "playground")>>
       ELSE <<>>)
      \o (IF recentRain
          THEN <<createTip("info", "medium", "Wet Playground", "playground")>>
          ELSE <<>>)
      \o (IF current.temperature < TEMP_THRESHOLDS.FREEZING
          THEN <<createTip("warning", "high", "Icy Conditions",
                           "playground")>>
          ELSE <<>>)

scoreDay(day) ==
  LET rainPenalty ==
        CASE day.precipitationProbability >= 70 -> 50
          [] day.precipitationProbability < 70
               /\ day.precipitationProbability >= 50 -> 30
          [] day.precipitationProbability < 50
               /\ day.precipitationProbability >= 30 -> 15
          [] OTHER -> 0
      heatPenalty ==
        CASE day.tempHigh > TEMP_THRESHOLDS.VERY_HOT -> 30
          [] day.tempHigh <= TEMP_THRESHOLDS.VERY_HOT
               /\ day.tempHigh > TEMP_THRESHOLDS.HOT -> 15
          [] OTHER -> 0
      coldPenalty ==
        CASE day.tempLow < TEMP_THRESHOLDS.FREEZING -> 20
          [] day.tempLow >= TEMP_THRESHOLDS.FREEZING
               /\ day.tempLow < TEMP_THRESHOLDS.VERY_COLD -> 10
          [] OTHER -> 0
  IN  Max(0, 100 - rainPenalty - heatPenalty - coldPenalty)

\* daily.find(d => d.date.getDay() === dow), <<>> for undefined
FindDay(daily, dow) ==
  LET found == SelectSeq(daily, LAMBDA d : /\ d.date # InvalidDate
                                           /\ getDay(d.date) = dow)
  IN  IF found = <<>> THEN <<>> ELSE <<found[1]>>

\* generateWeekendTips; today is new Date()
generateWeekendTips(weather, today) ==
  LET saturday == FindDay(weather.daily, 6)
      sunday == FindDay(weather.daily, 0)
  IN  IF getDay(today) # 4 /\ getDay(today) # 5 THEN <<>>
      ELSE IF saturday = <<>> \/ sunday = <<>> THEN <<>>
      ELSE LET satScore == scoreDay(saturday[1])
               sunScore == scoreDay(sunday[1])
           IN  CASE satScore >= 80 /\ sunScore >= 80 ->
                      <<createTip("tip", "low", "Great Weekend Ahead!",
                                  "weekend")>>
                 [] ~(satScore >= 80 /\ sunScore >= 80)
                      /\ satScore >= 70 /\ sunScore < 50 ->
                      <<createTip("tip", "medium", "Plan for Saturday",
                                  "weekend")>>
                 [] sunScore >= 70 /\ satScore < 50 ->
                      <<createTip("tip", "medium", "Plan for Sunday",
                                  "weekend")>>
                 [] satScore < 50 /\ sunScore < 50 ->
                      <<createTip("info", "low", "Indoor Weekend",
                                  "weekend")>>
                 [] OTHER -> <<>>

generateSafetyTips(weather) ==
  (IF weather.current.temperature < TEMP_THRESHOLDS.COLD
   THEN <<createTip("tip", "medium", "Car Seat Reminder", "safety")>>
   ELSE <<>>)
  \o (IF weather.current.temperature >= TEMP_THRESHOLDS.WARM
      THEN <<createTip("warning", "high", "Hot Car Alert", "safety")>>
      ELSE <<>>)

\* a variant that leaves the tips in generator order, for comparison
SortByPriorityNot(allTips) == allTips

\* allTips.sort by priorityOrder; the sort is stable
SortByPriority(allTips) ==
  SelectSeq(allTips, LAMBDA t : t.priority = "high")
  \o SelectSeq(allTips, LAMBDA t : t.priority = "medium")
  \o SelectSeq(allTips, LAMBDA t : t.priority = "low")

\* a variant that tells every tip apart, for comparison
categoryKeyByTitle(tip) == <<tip.category, tip.priority, tip.title>>

\* `${tip.category}-${tip.priority}`
categoryKey(tip) == <<tip.category, tip.priority>>

\* the loop over the sorted tips with the seenCategories set
RECURSIVE DedupeTips(_, _)
DedupeTips(sorted, seenCategories) ==
  IF sorted = <<>> THEN <<>>
  ELSE IF categoryKey(Head(sorted)) \notin seenCategories
       THEN <<Head(sorted)>>
            \o DedupeTips(Tail(sorted),
                          seenCategories \cup {categoryKey(Head(sorted))})
       ELSE DedupeTips(Tail(sorted), seenCategories)

\* generateSmartTips; generated holds the tips in the order the generators
\* gave them, before the sort
generateSmartTips(weather, today) ==
  LET generated ==
        generateTemperatureTips(weather)
        \o generateRainTips(weather)
        \o generateUVTips(weather)
        \o generateComfortTips(weather)
        \o generatePlaygroundTips(weather)
        \o generateWeekendTips(weather, today)
        \o generateSafetyTips(weather)
      dedupedTips == DedupeTips(SortByPriority(generated), {})
  IN  [op |-> "generateSmartTips",
       weather |-> weather,
       today |-> today,
       generated |-> generated,
       tips |-> dedupedTips,
       primaryTip |-> IF dedupedTips = <<>> THEN <<>> ELSE <<dedupedTips[1]>>,
       alerts |-> SelectSeq(dedupedTips, LAMBDA t : t.priority = "high")]

\* hourly records: a calm morning hour, a hot wet morning hour with extreme
\* UV and gale, a hot wet hour at pickup time, a cool breezy afternoon hour
\* with possible rain and very high UV, a wet late afternoon hour, a mild
\* evening hour with high UV
TipHours ==
  {[time |-> 8 * HourMs, temperature |-> 70, precipitationProbability |-> 0,
    uvIndex |-> 0, windSpeed |-> 0],
   [time |-> 8 * HourMs, temperature |-> 96, precipitationProbability |-> 80,
    uvIndex |-> 11, windSpeed |-> 40],
   [time |-> 15 * HourMs, temperature |-> 96, precipitationProbability |-> 80,
    uvIndex |-> 0, windSpeed |-> 0],
   [time |-> 15 * HourMs, temperature |-> 50, precipitationProbability |-> 30,
    uvIndex |-> 10, windSpeed |-> 26],
   [time |-> 18 * HourMs, temperature |-> 70, precipitationProbability |-> 60,
    uvIndex |-> 0, windSpeed |-> 0],
   [time |-> 20 * HourMs, temperature |-> 84, precipitationProbability |-> 0,
    uvIndex |-> 7, windSpeed |-> 0]}

TipHourlyLists == UNION {[1..n -> TipHours] : n \in 0..MaxTipHours}

TipCurrents ==
  [temperature : {20, 35, 45, 70, 82, 87, 92, 96}, humidity : {50, 85, 95}]

\* a fine and a poor Saturday (the third day of the epoch) and Sunday
FineDay(date) ==
  [date |-> date, precipitationProbability |-> 0, tempHigh |-> 75,
   tempLow |-> 55]

PoorDay(date) ==
  [date |-> date, precipitationProbability |-> 80, tempHigh |-> 75,
   tempLow |-> 35]

TipDailyLists ==
  {<<>>} \cup {<<sat, sun>> : sat \in {FineDay(2 * DayMs), PoorDay(2 * DayMs)},
                              sun \in {FineDay(3 * DayMs), PoorDay(3 * DayMs)}}

\* the day the tips are generated on: a Thursday or the Tuesday after it
TipDays == {0, 5 * DayMs}

\* the tips of one payload are generated in a run
GenerateTips ==
  /\ analysis = NoAnalysis
  /\ \E current \in TipCurrents, hourly \in TipHourlyLists,
        daily \in TipDailyLists, today \in TipDays :
       analysis' = generateSmartTips(
                     [current |-> current, hourly |-> hourly,
                      daily |-> daily], today)
  /\ UNCHANGED <<now, nticks, storage, calls, subs, hook, ncalls, lastGood,
               children, locs>>

NextTips == GenerateTips

SpecTips == InitRetry /\ [][NextTips]_vars

Generated == analysis.op = "generateSmartTips"

\* a list of tips holds a high-priority tip with the title
HasAlert(tips, title) ==
  \E i \in 1..Len(tips) : tips[i].title = title /\ tips[i].priority = "high"

\* C19: when the current temperature is 96, the tips and the alerts of the
\* result both hold a high-priority tip titled Dangerous Heat, whatever the
\* rest of the payload is
C19_DangerousHeatReported ==
  (Generated /\ analysis.weather.current.temperature = 96) =>
    /\ HasAlert(analysis.tips, "Dangerous Heat")
    /\ HasAlert(analysis.alerts, "Dangerous Heat")

PriorityRank(p) == CASE p = "high" -> 0 [] p = "medium" -> 1 [] OTHER -> 2

C21_AlertsAndPrimaryTip ==
  Generated =>
    /\ analysis.alerts
         = SelectSeq(analysis.tips, LAMBDA t : t.priority = "high")
    /\ analysis.primaryTip = <<>> <=> analysis.generated = <<>>
    /\ analysis.primaryTip # <<>> =>
         /\ analysis.primaryTip[1] = analysis.tips[1]
         /\ \A i \in 1..Len(analysis.tips) :
              PriorityRank(analysis.primaryTip[1].priority)
                <= PriorityRank(analysis.tips[i].priority)
         /\ analysis.alerts # <<>> => analysis.primaryTip[1] = analysis.alerts[1]

\* a low-priority tip was generated before a high-priority one, and the
\* primary tip is the first alert of a result that holds both
C21_Witness ==
  /\ Generated
  /\ \E p, q \in 1..Len(analysis.generated) :
       /\ p < q
       /\ analysis.generated[p].priority = "low"
       /\ analysis.generated[q].priority = "high"
  /\ analysis.alerts # <<>>
  /\ Len(analysis.alerts) < Len(analysis.tips)
  /\ analysis.primaryTip = <<analysis.alerts[1]>>

Scored == analysis.op = "calculateHourScore"

\* C29: an hour whose reason is Perfect conditions has the quality perfect,
\* and an hour whose reason is Good conditions has the quality perfect or
\* good, never fair or skip
C29_NoIssueMeansGood ==
  Scored =>
    /\ analysis.reason = <<"Perfect conditions">> => analysis.quality = "perfect"
    /\ analysis.reason = <<"Good conditions">>
         => analysis.quality \in {"perfect", "good"}

\* ---------------------------------------------------------------------
\* The roster of children (useChildren, handleRegistrationComplete)
\* ---------------------------------------------------------------------

\* the most children a roster holds
MaxChildren == 2

\* addChild's newChild; the id child-${Date.now()} is held as the clock
\* reading it is made of
NewChild(name, ageMonths, clock) ==
  [id |-> clock, name |-> name, ageMonths |-> ageMonths,
   ageGroup |-> getAgeGroup(ageMonths)]

\* a variant that never recomputes the age group, for comparison
UpdatedChildStale(c, updates) ==
  [c EXCEPT !.name = IF updates.name = <<>> THEN @ ELSE updates.name[1],
            !.ageMonths = IF updates.ageMonths = <<>> THEN @
                          ELSE updates.ageMonths[1]]

\* updateChild's { ...c, ...updates } with the age group recomputed when
\* updates.ageMonths !== undefined; a field that updates leaves out is <<>>
UpdatedChild(c, updates) ==
  [c EXCEPT !.name = IF updates.name = <<>> THEN @ ELSE updates.name[1],
            !.ageMonths = IF updates.ageMonths = <<>> THEN @
                          ELSE updates.ageMonths[1],
            !.ageGroup = IF updates.ageMonths = <<>> THEN @
                         ELSE getAgeGroup(updates.ageMonths[1])]

\* the clock advances by one millisecond
RosterTick ==
  /\ nticks < MaxTicks
  /\ now' = now + 1
  /\ nticks' = nticks + 1
  /\ UNCHANGED <<storage, calls, subs, hook, ncalls, lastGood, analysis,
                 children, locs>>

addChild(name, ageMonths) ==
  /\ Len(children) < MaxChildren
  /\ children' = Append(children, NewChild(name, ageMonths, now))
  /\ UNCHANGED <<now, nticks, storage, calls, subs, hook, ncalls, lastGood,
                 analysis, locs>>

removeChild(id) ==
  /\ children' = SelectSeq(children, LAMBDA c : c.id # id)
  /\ UNCHANGED <<now, nticks, storage, calls, subs, hook, ncalls, lastGood,
                 analysis, locs>>

updateChild(id, updates) ==
  /\ children' = [i \in 1..Len(children) |->
                    IF children[i].id # id THEN children[i]
                    ELSE UpdatedChild(children[i], updates)]
  /\ UNCHANGED <<now, nticks, storage, calls, subs, hook, ncalls, lastGood,
                 analysis, locs>>

\* handleRegistrationComplete(kidsData): addChild(kid.name, years * 12) for
\* every kid in turn, all within one reading of the clock; a clock that
\* advances between two calls is what addChild and RosterTick give
handleRegistrationComplete(kidsData) ==
  /\ Len(children) + Len(kidsData) <= MaxChildren
  /\ children' = children
                   \o [i \in 1..Len(kidsData) |->
                         NewChild(kidsData[i].name, kidsData[i].age * 12, now)]
  /\ UNCHANGED <<now, nticks, storage, calls, subs, hook, ncalls, lastGood,
                 analysis, locs>>

ChildNames == {"Ann", "Bo"}

\* the ages given to addChild, at both sides of the first boundary and past
\* the last
AddedAges == {12, 13, 61}

\* the age an edit gives
EditedAges == {36}

\* the updates of an edit: a name, an age, or both
ChildUpdates ==
  [name : {<<>>} \cup {<<n>> : n \in ChildNames},
   ageMonths : {<<>>} \cup {<<a>> : a \in EditedAges}]
    \ {[name |-> <<>>, ageMonths |-> <<>>]}

\* the kids of a registration: four years old
RegisteredKids == [name : ChildNames, age : {4}]

RosterIds == {children[i].id : i \in 1..Len(children)}

RosterAdd == \E n \in ChildNames, a \in AddedAges : addChild(n, a)

RosterRemove == \E id \in RosterIds : removeChild(id)

RosterUpdate == \E id \in RosterIds, u \in ChildUpdates : updateChild(id, u)

RosterRegister ==
  \E n \in 1..MaxChildren : \E kidsData \in [1..n -> RegisteredKids] :
    handleRegistrationComplete(kidsData)

NextRoster ==
  RosterTick \/ RosterAdd \/ RosterRemove \/ RosterUpdate \/ RosterRegister

SpecRoster == InitRetry /\ [][NextRoster]_vars

\* the age group the claim gives an age in months
AgeGroupOf(ageMonths) ==
  IF ageMonths <= 12 THEN "baby"
  ELSE IF ageMonths <= 36 THEN "toddler"
  ELSE IF ageMonths <= 60 THEN "preschool"
  ELSE "school-age"

\* C22: every child of the roster has the age group of its age in months:
\* baby up to 12, toddler up to 36, preschool up to 60, school-age above
C22_AgeGroupFollowsAge ==
  \A i \in 1..Len(children) :
    /\ children[i].ageGroup = getAgeGroup(children[i].ageMonths)
    /\ children[i].ageGroup = AgeGroupOf(children[i].ageMonths)

\* a child whose age was edited, to 36 months, is a toddler, beside a child
\* that was added
C22_Witness ==
  /\ Len(children) = 2
  /\ \E i, j \in 1..Len(children) :
       /\ children[i].ageMonths \in EditedAges
       /\ children[i].ageGroup = "toddler"
       /\ children[j].ageMonths \notin EditedAges

\* C26: the children of the roster have pairwise distinct ids
C26_DistinctIds ==
  \A i, j \in 1..Len(children) : i # j => children[i].id # children[j].id

\* the items of the last outfit hold an item of one of the ids
HasItem(ids) ==
  \E i \in 1..Len(analysis.items) : analysis.items[i].id \in ids

\* C27: an outfit with needsRainGear holds a rain jacket, rain boots or an
\* umbrella among its items
C27_RainGearPresent ==
  (Composed /\ analysis.needsRainGear)
    => HasItem({"rainJacket", "rainBoots", "umbrella"})

\* the days an outfit is composed for: an hour of the morning and an hour
\* of the afternoon, the morning at both sides of every mid-layer threshold,
\* the afternoon as warm, 15, 16 or 20 degrees warmer
DayMornings == {20, 39, 40, 49, 50, 59, 60, 64, 65, 69, 70, 74, 75, 76}

DayWarmings == {0, 15, 16, 20}

DayRains == {0, 40}

DayHourlyLists ==
  {<<[time |-> 8 * HourMs, temperature |-> m, precipitationProbability |-> r,
      uvIndex |-> 0],
     [time |-> 15 * HourMs, temperature |-> m + w,
      precipitationProbability |-> 0, uvIndex |-> 0]>> :
     m \in DayMornings, w \in DayWarmings, r \in DayRains}

\* the outfit of one child is composed for one day, in the morning
ComposeDayOutfit ==
  /\ analysis = NoAnalysis
  /\ \E child \in OutfitChildren, hourly \in DayHourlyLists :
       analysis' = generateOutfitRecommendation(
                     child,
                     [current |-> [uvIndex |-> 0,
                                   precipitationProbability |-> 0],
                      hourly |-> hourly], 8)
  /\ UNCHANGED <<now, nticks, storage, calls, subs, hook, ncalls, lastGood,
                 children, locs>>

NextDayOutfit == ComposeDayOutfit

SpecDayOutfit == InitRetry /\ [][NextDayOutfit]_vars

\* C23: when the afternoon temperature of an outfit is at least 15 degrees
\* above its morning temperature, its items hold a mid-layer item
C23_MidLayerOnWarming ==
  (Composed /\ analysis.afternoonTemp - analysis.morningTemp >= 15)
    => \E i \in 1..Len(analysis.items) : analysis.items[i].layer = "mid"

\* ---------------------------------------------------------------------
\* The extra layers of an age (getMidLayers, getExtraLayers)
\* ---------------------------------------------------------------------

\* the highest age in months considered
MaxAgeMonths == 150

\* the extra layers of a child of an age, in halves of a layer: as
\* getMidLayers computes them through the age group, and as getExtraLayers
\* gives them for the age itself
ExtraLayersOf(ageMonths) ==
  [op |-> "getExtraLayers",
   ageMonths |-> ageMonths,
   ageGroup |-> getAgeGroup(ageMonths),
   proxy |-> getExtraLayers(ProxyMonths(getAgeGroup(ageMonths))),
   actual |-> getExtraLayers(ageMonths)]

\* the extra layers of one age are computed in a run
ComputeExtraLayers ==
  /\ analysis = NoAnalysis
  /\ \E ageMonths \in 0..MaxAgeMonths : analysis' = ExtraLayersOf(ageMonths)
  /\ UNCHANGED <<now, nticks, storage, calls, subs, hook, ncalls, lastGood,
                 children, locs>>

NextAges == ComputeExtraLayers

SpecAges == InitRetry /\ [][NextAges]_vars

\* C30: the extra layers computed through the age group of a child, with
\* 6, 24 or 60 months standing for its age, are those of its actual age, so
\* both give the same mid-layer threshold
C30_ProxyMatchesAge ==
  analysis.op = "getExtraLayers" =>
    /\ analysis.proxy = analysis.actual
    /\ TEMP_THRESHOLDS.COOL + analysis.proxy * 5
         = TEMP_THRESHOLDS.COOL + analysis.actual * 5

\* a toddler of 36 months, an age other than the 24 months that stand for
\* it, has half an extra layer either way
C30_Witness ==
  /\ analysis.op = "getExtraLayers"
  /\ analysis.ageMonths = 36
  /\ analysis.ageGroup = "toddler"
  /\ analysis.proxy = 1
  /\ analysis.actual = 1

\* the longest hourly list of a whole day analysed
MaxDayHours == 4

\* the hourly records of a day: a perfect hour at noon and one at 20:00, a
\* good hour at 06:00, a skip hour at noon
DayHours ==
  {[time |-> 12 * HourMs, temperature |-> 70, precipitationProbability |-> 0,
    uvIndex |-> 1, humidity |-> 50, windSpeed |-> 0],
   [time |-> 20 * HourMs, temperature |-> 70, precipitationProbability |-> 0,
    uvIndex |-> 1, humidity |-> 50, windSpeed |-> 0],
   [time |-> 6 * HourMs, temperature |-> 70, precipitationProbability |-> 40,
    uvIndex |-> 1, humidity |-> 50, windSpeed |-> 0],
   [time |-> 12 * HourMs, temperature |-> 30,
    precipitationProbability |-> 100, uvIndex |-> 1, humidity |-> 50,
    windSpeed |-> 0]}

DayLists == UNION {[1..n -> DayHours] : n \in 0..MaxDayHours}

\* the hourly list of one day is analysed in a run
AnalyzeDay ==
  /\ analysis = NoAnalysis
  /\ \E hourly \in DayLists : analysis' = analyzeActivityWindows(hourly)
  /\ UNCHANGED <<now, nticks, storage, calls, subs, hook, ncalls, lastGood,
                 children, locs>>

NextDay == AnalyzeDay

SpecDay == InitRetry /\ [][NextDay]_vars

\* C28: an analysis whose day summary is the great day or the good
\* opportunities one has a perfect or good window: hasGoodWindows is true
\* and bestWindow is not null
C28_GoodSummaryHasWindow ==
  (Analyzed /\ analysis.daySummary
                 \in {"Great day for outdoor activities!",
                      "Good opportunities for outdoor time today"})
    => /\ analysis.hasGoodWindows
       /\ analysis.bestWindow # <<>>

\* ---------------------------------------------------------------------
\* Calls for changing places (fetchAllWeather, useGeolocation)
\* ---------------------------------------------------------------------

\* the calls made in a run, one after the other
MaxPlaceCalls == 2

Places == {Home, Away}

\* fetchAllWeather(lat, lng, options) is called for a place, once the call
\* before it has settled
PlaceCall ==
  /\ ncalls < MaxPlaceCalls
  /\ AllQuiet
  /\ \E loc \in Places, uc \in BOOLEAN, fr \in BOOLEAN :
       CallFetchAll("A", FALSE, uc, fr, loc)

PlaceOk == \E k \in Endpoints, body \in Bodies : RespondOk("A", k, body)

\* half an hour passes between two calls
PlaceTick ==
  /\ nticks < MaxTicks
  /\ AllQuiet
  /\ ncalls < MaxPlaceCalls
  /\ Tick(CACHE_DURATION_MS)

NextPlaces == PlaceCall \/ PlaceOk \/ PlaceTick

SpecPlaces == InitRetry /\ [][NextPlaces]_vars

\* C24: the payload a call returned was produced by requests that carried
\* the (lat, lng) of that call
C24_PayloadOfOwnPlace ==
  \A c \in Callers :
    calls[c].st = "resolved" =>
      \A k \in {"current", "hourly", "daily"} :
        locs[calls[c].result[k].src] = locs[calls[c].id]

\* ---------------------------------------------------------------------
\* Overlapping runs of useWeather.fetchWeather
\* ---------------------------------------------------------------------

\* fetchWeather runs, for the location changed or refresh() called, while
\* the run before it may still be waiting
OverlapCall ==
  \E c \in Callers, fr \in BOOLEAN, loc \in Places :
    /\ calls[c].st = "idle"
    /\ CallFetchAll(c, TRUE, TRUE, fr, loc)

OverlapOk ==
  \E c \in Callers, k \in Endpoints, body \in Bodies : RespondOk(c, k, body)

\* a second passes
OverlapTick ==
  /\ nticks < MaxTicks
  /\ Tick(RETRY_DELAY_MS)

NextOverlap == OverlapCall \/ OverlapOk \/ OverlapTick

SpecOverlap == InitRetry /\ [][NextOverlap]_vars

\* the runs of fetchWeather started so far
Runs == {c \in Callers : calls[c].st # "idle"}

\* C25: once every run of fetchWeather has settled, the data and lastUpdated
\* shown are those of the run started last; and isLoading is false only
\* when no run is still waiting
C25_LatestRunShown ==
  /\ (Runs # {} /\ \A c \in Runs : calls[c].st = "resolved") =>
       \E c \in Runs :
         /\ \A d \in Runs : calls[d].id <= calls[c].id
         /\ hook.data = calls[c].result
         /\ hook.lastUpdated = calls[c].result.fetchedAt
  /\ ~hook.isLoading => \A c \in Runs : calls[c].st # "pending"

====
